---- MODULE Spec2Model ----
(***************************************************************************)
(* PCBOT: the lambda store, its enablement blacklist, the owner-claim flow, *)
(* the owner commands, the plugins and the Config documents, as            *)
(* implemented twice in the repository:                                    *)
(*   - bot.py          (class Bot, everything inside Bot.on_message)       *)
(*   - pcbot/builtin.py (one coroutine per command, Config documents)      *)
(* Both rest on pcbot/config.py (class Config).                            *)
(*                                                                         *)
(* A message's content is modelled as its token list (tokens separated by  *)
(* single spaces, no quotes), so that shlex.split(content) is that list    *)
(* and " ".join(args) is the content again.                                *)
(***************************************************************************)
EXTENDS Integers, Sequences, FiniteSets, TLC

(***************************************************************************)
(* Input sets.                                                             *)
(***************************************************************************)
Users == {"u1", "u2"}
BotUser == "bot"
RawNames == {"t1", "T1", "t2"}
Bodies == {"b1", "b2"}

\* str.lower() on the tokens of the model
Lower(s) == IF s = "T1" THEN "t1" ELSE IF s = "Web" THEN "web" ELSE s

(***************************************************************************)
(* JSON values held by a Config and by its file.                           *)
(***************************************************************************)
JNone == [t |-> "null"]
JStr(s) == [t |-> "str", v |-> s]
JObj(f) == [t |-> "obj", v |-> f]
JArr(q) == [t |-> "arr", v |-> q]
JNum(n) == [t |-> "num", v |-> n]
JBool(b) == [t |-> "bool", v |-> b]
\* no file at the Config's filepath
NoFile == [t |-> "absent"]
\* a file whose content json.load rejects (ValueError): empty, or cut short
Malformed == [t |-> "malformed"]

EmptyDict == [k \in {} |-> ""]
\* d[k] = k: the key stored in place of the value
Put_StoresKey(f, k, x) == [y \in DOMAIN f \cup {k} |-> IF y = k THEN k ELSE f[y]]
\* d.clear() in place of del d[k]
Pop_Clears(f, k) == EmptyDict
Put(f, k, x) == [y \in DOMAIN f \cup {k} |-> IF y = k THEN x ELSE f[y]]
Pop(f, k) == [y \in DOMAIN f \ {k} |-> f[y]]
InList(q, x) == \E i \in 1..Len(q) : q[i] = x
\* list.remove(x): drops the first occurrence
RemoveFirst(q, x) ==
    LET i == CHOOSE j \in 1..Len(q) : q[j] = x /\ \A k \in 1..(j - 1) : q[k] # x
    IN  SubSeq(q, 1, i - 1) \o SubSeq(q, i + 1, Len(q))

\* a test that never finds the value set
Truthy_Never(j) == FALSE
\* Python truth value of a JSON value
Truthy(j) ==
    CASE j.t = "null" -> FALSE
      [] j.t = "str" -> j.v # ""
      [] j.t = "obj" -> DOMAIN j.v # {}
      [] j.t = "arr" -> Len(j.v) > 0
      [] j.t = "num" -> j.v # 0
      [] j.t = "bool" -> j.v

\* Python ==  on JSON values: False == 0 and True == 1
PyEq(a, b) ==
    IF a.t = "bool" /\ b.t = "num" THEN b.v = (IF a.v THEN 1 ELSE 0)
    ELSE IF a.t = "num" /\ b.t = "bool" THEN a.v = (IF b.v THEN 1 ELSE 0)
    ELSE a = b

\* Config.load: the parsed file, or None when there is no file or json.load
\* raised ValueError
ConfigLoad(file) == IF file.t \in {"absent", "malformed"} THEN JNone ELSE file

\* Config.save: json.dump of the data over the file
ConfigSave(data) == data

\* the keys of the default replace those of the file
AddMissing_DefaultWins(loaded, data) ==
    [k \in DOMAIN loaded \cup DOMAIN data |->
        IF k \in DOMAIN data THEN data[k] ELSE loaded[k]]
\* Config.__init__: compare and add missing keys
AddMissing(loaded, data) ==
    [k \in DOMAIN loaded \cup DOMAIN data |->
        IF k \in DOMAIN loaded THEN loaded[k] ELSE data[k]]

\* Config.__init__(filename, data): the data of the new Config and its file.
\* raised: data.items() on a default that is no dict (AttributeError).
ConfigInit(file, data) ==
    LET loaded_data == ConfigLoad(file)
        merged == IF loaded_data.t = "obj" /\ data.t = "obj"
                  THEN JObj(AddMissing(loaded_data.v, data.v))
                  ELSE loaded_data
        self_data == IF data # JNone /\ ~Truthy(loaded_data) THEN data
                     ELSE IF Truthy(loaded_data) THEN merged
                     ELSE JNone
        raised == /\ ~(data # JNone /\ ~Truthy(loaded_data))
                  /\ Truthy(loaded_data)
                  /\ loaded_data.t = "obj"
                  /\ data.t # "obj"
    IN  [data |-> self_data,
         file |-> IF raised \/ PyEq(self_data, loaded_data) THEN file
                  ELSE ConfigSave(self_data),
         raised |-> raised]

(***************************************************************************)
(* State.                                                                  *)
(***************************************************************************)
VARIABLES
    \* bot.py
    bot_owner,              \* self.owner.data
    bot_lambdas,            \* self.lambdas.data
    bot_lambda_blacklist,   \* self.lambda_blacklist
    bot_files,              \* config/<name>.json as written by bot.py
    bot_flows,              \* the on_message coroutines suspended in the claim flow
    bot_console,            \* the owner codes printed to the console
    bot_step,               \* the last step: "on_message", "assign", "timeout" or "init"
    bot_message,            \* the message whose handler ran last
    bot_sent,               \* what the last step sent, each with its channel
    bot_exec,               \* the code the last step exec'ed or eval'ed
    plugins,                \* plugins: the name of each loaded plugin to its module
    bot_dir,                \* the plugin units in plugins/
    bot_message_count,      \* self.message_count.data
    bot_game,               \* the game last set with change_status
    bot_alive,              \* the process runs
    bot_raised,             \* the exception that left the last step's handler
    bot_loaded              \* what load_plugin returned in the last step

botVars == <<bot_owner, bot_lambdas, bot_lambda_blacklist, bot_files,
             bot_flows, bot_console, bot_step, bot_message, bot_sent, bot_exec,
             plugins, bot_dir, bot_message_count, bot_game, bot_alive,
             bot_raised, bot_loaded>>

VARIABLES
    \* pcbot/builtin.py
    owner_cfg,              \* utils.owner_cfg.data
    lambdas,                \* lambdas.data
    lambda_config,          \* lambda_config.data
    files,                  \* config/<name>.json as written by builtin.py
    flows,                  \* the setowner coroutines suspended in the claim flow
    log,                    \* what logging wrote: the owner codes (logging.critical)
                            \* and the errors of lambdas (logging.warning)
    call,                   \* the command or event handled last, with its arguments
    reply,                  \* what it told the channel: client.say, or a failed assert
    session                 \* the lambda body it ran (lambda_session)

builtinVars == <<owner_cfg, lambdas, lambda_config, files, flows, log,
                 call, reply, session>>

VARIABLES
    \* pcbot/config.py: one Config document, and the process that opens it
    cfg_file,               \* the content of the file at self.filepath
    cfg_data,               \* self.data, or Closed when no process holds the Config
    cfg_default,            \* after Config(...): its data argument
    cfg_loaded,             \* after Config(...): the file as it found it
    cfg_old,                \* after an interrupted save(): the file as it found it
    cfg_new,                \* after an interrupted save(): the data it was writing
    cfg_step                \* the last step: "init", "open", "open_raised", "assign",
                            \* "save", "exit" or "crash"

configVars == <<cfg_file, cfg_data, cfg_default, cfg_loaded, cfg_old, cfg_new, cfg_step>>

VARIABLES
    \* bot.py: the head of Bot.on_message, on the text of a message
    tok_content,            \* message.content, character by character
    tok_args,               \* args
    tok_fallback,           \* shlex.split raised ValueError
    tok_outcome             \* "init", "returned" (empty content), "IndexError"
                            \* (args[0] on no tokens) or "dispatched"

tokVars == <<tok_content, tok_args, tok_fallback, tok_outcome>>

VARIABLES
    \* bot.py: the plugins and the coroutines that call their hooks
    plug_mem,               \* the state each plugin module holds in its globals
    plug_disk,              \* the state each plugin's save wrote last
    tasks,                  \* the autosave task (0) and the on_message coroutines
                            \* that are suspended in a hook or between two hooks
    hook_event              \* what the last step of a task did, and to which plugin

hookVars == <<plug_mem, plug_disk, tasks, hook_event>>

VARIABLES
    \* bot.py: Bot.find_member and Bot.find_channel, one call
    find_server,            \* server.members or server.channels, in iteration order
    find_name,              \* name, character by character
    find_steps,             \* steps
    find_mention,           \* mention
    find_found,             \* what the call returned
    find_call               \* "init", "find_member" or "find_channel"

findVars == <<find_server, find_name, find_steps, find_mention, find_found, find_call>>

VARIABLES
    \* pcbot/builtin.py: the scope of the lambdas and snippets, and their coroutines
    code_globals,           \* code_globals: arg (the args its closure holds), args, message
    sessions,               \* the lambda_session and do_session coroutines suspended
                            \* at an await of their body
    session_event           \* the last step of a body: what it read in code_globals

sessionVars == <<code_globals, sessions, session_event>>

vars == <<botVars, builtinVars, configVars, tokVars, hookVars, findVars, sessionVars>>

\* the variables that no step of bot.py, of builtin.py, of a Config writes
outsideBot == <<builtinVars, configVars, tokVars, hookVars, findVars, sessionVars>>
outsideBuiltin == <<botVars, configVars, tokVars, hookVars, findVars, sessionVars>>
outsideConfig == <<botVars, builtinVars, tokVars, hookVars, findVars, sessionVars>>
\* the variables that no step of a task writes
outsideHooks == <<builtinVars, configVars, tokVars, findVars, sessionVars>>

\* a private channel is the one-to-one channel of a user, named by that user
PublicChannel == "pub"
Channels == Users \cup {PublicChannel}
is_private(channel) == channel \in Users

NoMessage == [author |-> "", channel |-> "", args |-> <<>>]
NoExec == <<>>

\* the coroutines that can be suspended in the claim flow at one time
MaxFlows == 2
Slots == 1..MaxFlows
\* random.randint(100, 999), as text
Codes == {"123", "456"}
Idle == [pc |-> "idle", message |-> NoMessage, owner_code |-> "", user_code |-> NoMessage]

\* the on_message coroutines that can be suspended in or between hooks at one time
MaxTasks == 2
\* task 0 is the autosave task, the others are on_message coroutines
Autosave == 0
TaskIds == 0..MaxTasks
\* the plugin units whose hooks are followed
HookUnits == {"web", "log", "bare"}
\* the state of a plugin: the word it was given last; Half: a module whose
\* top-level code stopped half-way through a reload
Words == {"", "w1"}
Half == "half"
NoTask == [pc |-> "idle", message |-> NoMessage, then |-> "", after |-> "",
           name |-> "", visited |-> {}, size |-> 0]
NoEvent == [ops |-> {}, task |-> 0, at |-> "", offered |-> {}]
\* Bot.__init__: asyncio.async(self.autosave()), which sleeps first
HookIdle ==
    /\ plug_mem = [n \in HookUnits |-> ""]
    /\ plug_disk = [n \in HookUnits |-> ""]
    /\ tasks = [i \in TaskIds |-> IF i = Autosave
                                  THEN [NoTask EXCEPT !.pc = "sleep", !.after = "sleep"]
                                  ELSE NoTask]
    /\ hook_event = NoEvent

\* None, as find_member and find_channel return it
NotFound == [id |-> 0, name |-> <<>>]
\* no call of find_member or find_channel yet
FindIdle ==
    /\ find_server = <<>>
    /\ find_name = <<>>
    /\ find_steps = 3
    /\ find_mention = TRUE
    /\ find_found = NotFound
    /\ find_call = "init"

\* the lambda_session and do_session coroutines that can be suspended at one time
MaxSessions == 2
SessionSlots == 1..MaxSessions
\* code_globals = {}: no name is bound
NoGlobals == [arg |-> <<>>, args |-> <<>>, message |-> NoMessage]
NoSession == [pc |-> "idle", op |-> "", message |-> NoMessage]
NoSessionEvent == [at |-> "", op |-> "", message |-> NoMessage, seen |-> NoGlobals]
\* the module is imported: nothing ran yet
SessionIdle ==
    /\ code_globals = NoGlobals
    /\ sessions = [s \in SessionSlots |-> NoSession]
    /\ session_event = NoSessionEvent

(***************************************************************************)
(* bot.py                                                                  *)
(***************************************************************************)
\* Bot.is_owner, against the owner data o
is_owner(user, o) == JStr(user) = o

\* the body text of "!lambda add <name> <body>": content after the first three tokens
Cmd(args) == SubSeq(args, 4, Len(args))

\* the message: Command, the name quoted, what happened to it
CommandM(name, what) == <<"Command", name, what>>
\* the message: Source for name, then the body
SourceM(name, body) == <<"Source for", name, body>>
AlreadySet == <<"An owner is already set.">>
CodePrinted == <<"A code has been printed in the console for you to repeat.">>
Assigned == <<"You have been assigned bot owner.">>
Failed == <<"You failed to send the desired code.">>

\* Bot.on_message, the "!lambda" branch: the new lambdas, blacklist, whether
\* self.lambdas.save() ran, and the message m
LambdaBranch(args, L, B) ==
    LET same(m) == [data |-> L, blacklist |-> B, save |-> FALSE, m |-> m]
    IN
    IF Len(args) > 2 THEN
        LET name == Lower(args[3]) IN
        IF args[2] = "add" /\ Len(args) > 3 THEN
            IF name \notin DOMAIN L
            THEN [data |-> Put(L, name, Cmd(args)), blacklist |-> B, save |-> TRUE,
                  m |-> CommandM(name, "set.")]
            ELSE same(CommandM(name, "already exists."))
        ELSE IF args[2] = "remove" THEN
            IF name \in DOMAIN L
            THEN [data |-> Pop(L, name), blacklist |-> B, save |-> TRUE,
                  m |-> CommandM(name, "removed.")]
            ELSE same(CommandM(name, "does not exist."))
        ELSE IF args[2] = "disable" THEN
            IF ~InList(B, name)
            THEN [data |-> L, blacklist |-> Append(B, name), save |-> TRUE,
                  m |-> CommandM(name, "disabled.")]
            ELSE IF name \in DOMAIN L
                 THEN same(CommandM(name, "is already disabled."))
                 ELSE same(CommandM(name, "does not exist."))
        ELSE IF args[2] = "enable" THEN
            IF InList(B, name)
            THEN [data |-> L, blacklist |-> RemoveFirst(B, name), save |-> TRUE,
                  m |-> CommandM(name, "enabled.")]
            ELSE IF name \in DOMAIN L
                 THEN same(CommandM(name, "is already enabled."))
                 ELSE same(CommandM(name, "does not exist."))
        ELSE IF args[2] = "source" THEN
            IF name \in DOMAIN L
            THEN same(SourceM(name, L[name]))
            ELSE same(CommandM(name, "does not exist."))
        ELSE same(CommandM(name, ""))
    ELSE same(<<>>)

\* Bot.on_message, the lambda dispatch at its end: what is exec'ed
LambdaDispatch(args, L, B) ==
    IF args[1] \in DOMAIN L /\ ~InList(B, args[1])
    THEN [trigger |-> args[1], body |-> L[args[1]]]
    ELSE NoExec

\* what running a piece of code does, told by its first token: it runs to its
\* end ("ok"), does not compile, or raises
OutcomeOf(token) ==
    CASE token = "(" -> "SyntaxError"
      [] token = "1/0" -> "ZeroDivisionError"
      [] token = "assert" -> "AssertionError"
      [] OTHER -> "ok"
\* of the code of a message: the text after the command
Outcome(script) == OutcomeOf(script[1])

\* name.startswith("__") and name.endswith("__")
Dunder(plugin_name) == plugin_name = "__init__"
\* importlib.import_module("plugins.<name>"): the module, ImportError when no
\* unit has the name, or what the unit raises while it is imported
ImportModule(plugin_name) ==
    IF plugin_name \notin bot_dir THEN "ImportError"
    ELSE IF plugin_name = "broken" THEN "SyntaxError"
    ELSE "module"

\* every load succeeds without a module
load_plugin_AlwaysTrue(plugin_name, P) ==
    [plugins |-> P, returned |-> "True", raised |-> ""]
\* load_plugin(plugin_name) on the plugins P
load_plugin(plugin_name, P) ==
    IF ~Dunder(plugin_name)
    THEN IF ImportModule(plugin_name) = "ImportError"
         THEN [plugins |-> P, returned |-> "False", raised |-> ""]
         ELSE IF ImportModule(plugin_name) = "module"
         THEN [plugins |-> Put(P, plugin_name, plugin_name), returned |-> "True",
               raised |-> ""]
         ELSE [plugins |-> P, returned |-> "", raised |-> ImportModule(plugin_name)]
    ELSE [plugins |-> P, returned |-> "False", raised |-> ""]

\* reload_plugin: importlib.reload gives the module it was given
reload_plugin(plugin_name, P) ==
    IF plugin_name \in DOMAIN P THEN Put(P, plugin_name, P[plugin_name]) ELSE P
\* unload_plugin
unload_plugin(plugin_name, P) ==
    IF plugin_name \in DOMAIN P THEN Pop(P, plugin_name) ELSE P

\* what the module of a plugin defines. web: a command table with the command
\* define, and save; log: an empty command table, always_run and save; bare:
\* always_run and no command table.
HasCommands(plugin) == plugin # "bare"
\* plugin.commands
Commands(plugin) == IF plugin = "web" THEN {"define"} ELSE {}
\* getattr(plugin, "always_run", False)
always_run(plugin) == plugin \in {"log", "bare"}
\* the module defines save
HasSave(plugin) == plugin \in {"web", "log"}

HelpList == <<"Commands:">>
HelpUsage(cmd) == <<"Usage", cmd>>
\* Bot.on_message, "!help": what it can send and raise over the plugins P,
\* whose items it visits in the order of the dict. plugin.commands of a
\* module without a command table raises AttributeError.
Help(args, P) ==
    IF args[1] # "!help" THEN {[sent |-> <<>>, raised |-> ""]}
    ELSE IF Len(args) > 1
    THEN LET plugin_name == Lower(args[2])
             found == \E n \in DOMAIN P : HasCommands(n) /\ plugin_name \in Commands(n)
             bare == \E n \in DOMAIN P : ~HasCommands(n)
         IN  (IF found THEN {[sent |-> <<HelpUsage(plugin_name)>>, raised |-> ""]} ELSE {})
             \cup (IF bare THEN {[sent |-> <<>>, raised |-> "AttributeError"]} ELSE {})
             \cup (IF ~found /\ ~bare THEN {[sent |-> <<>>, raised |-> ""]} ELSE {})
    ELSE IF \E n \in DOMAIN P : ~HasCommands(n)
         THEN {[sent |-> <<>>, raised |-> "AttributeError"]}
         ELSE {[sent |-> <<HelpList>>, raised |-> ""]}

UsageGame == <<"Usage: !game <game>">>
ErrorM(e) == <<"error", e>>
ResultM(script) == <<"Result:", script>>
PluginM(name, what) == <<"Plugin", name, what>>
NotAPlugin(name) == <<name, "is not a plugin.">>
AllReloaded == <<"All plugins reloaded.">>
NotValid(arg) == <<arg, "is not a valid argument.">>
PluginList == <<"Plugins:">>
Counted(n) == <<"I have counted", ToString(n)>>

\* the messages counted in a channel at most
MaxCount == 2
\* self.message_count.data.get(channel) or 0
CountOf(channel) ==
    IF channel \in DOMAIN bot_message_count.v THEN bot_message_count.v[channel] ELSE 0

\* an owner command that does nothing
NoCommand ==
    [lam |-> [data |-> bot_lambdas.v, blacklist |-> bot_lambda_blacklist,
              save |-> FALSE, m |-> <<>>],
     sent |-> <<>>, plugins |-> plugins, count |-> bot_message_count,
     count_save |-> FALSE, game |-> bot_game, alive |-> TRUE, raised |-> "",
     loaded |-> "", exec |-> NoExec]

\* Bot.on_message, the "!plugin" branch
PluginBranch(args) ==
    IF Len(args) > 1 THEN
        IF args[2] = "reload" THEN
            IF Len(args) > 2 THEN
                IF args[3] \in DOMAIN plugins
                THEN [NoCommand EXCEPT !.plugins = reload_plugin(args[3], plugins),
                                       !.sent = <<PluginM(args[3], "reloaded.")>>]
                ELSE [NoCommand EXCEPT !.sent = <<NotAPlugin(args[3])>>]
            ELSE [NoCommand EXCEPT !.sent = <<AllReloaded>>]
        ELSE IF args[2] = "load" THEN
            IF Len(args) > 2 THEN
                IF Lower(args[3]) \notin DOMAIN plugins
                THEN LET l == load_plugin(Lower(args[3]), plugins) IN
                     IF l.raised # ""
                     THEN [NoCommand EXCEPT !.raised = l.raised]
                     ELSE [NoCommand EXCEPT
                             !.plugins = l.plugins,
                             !.loaded = l.returned,
                             !.sent = IF l.returned = "True"
                                      THEN <<PluginM(args[3], "loaded.")>>
                                      ELSE <<PluginM(args[3], "could not be loaded.")>>]
                ELSE [NoCommand EXCEPT !.sent = <<PluginM(args[3], "is already loaded.")>>]
            ELSE NoCommand
        ELSE IF args[2] = "unload" THEN
            IF Len(args) > 2 THEN
                IF Lower(args[3]) \in DOMAIN plugins
                THEN [NoCommand EXCEPT !.plugins = unload_plugin(Lower(args[3]), plugins),
                                       !.sent = <<PluginM(args[3], "unloaded.")>>]
                ELSE [NoCommand EXCEPT !.raised = "KeyError"]
            ELSE NoCommand
        ELSE [NoCommand EXCEPT !.sent = <<NotValid(args[2])>>]
    ELSE [NoCommand EXCEPT !.sent = <<PluginList>>]

\* Bot.on_message, the branch of the owner: what the command of message does
OwnerCommand(message) ==
    LET args == message.args IN
    IF args = <<"!stop">>
    THEN [NoCommand EXCEPT !.alive = FALSE, !.raised = "SystemExit"]
    ELSE IF args[1] = "!game" THEN
        IF Len(args) > 1 THEN [NoCommand EXCEPT !.game = args[2]]
        ELSE [NoCommand EXCEPT !.sent = <<UsageGame>>]
    ELSE IF args[1] = "!do" THEN
        IF Len(args) > 1 THEN
            LET script == SubSeq(args, 2, Len(args)) IN
            IF Outcome(script) = "ok"
            THEN [NoCommand EXCEPT !.exec = [trigger |-> "!do", body |-> script]]
            ELSE IF Outcome(script) = "SyntaxError"
            THEN [NoCommand EXCEPT !.sent = <<ErrorM(Outcome(script))>>]
            ELSE [NoCommand EXCEPT !.exec = [trigger |-> "!do", body |-> script],
                                   !.sent = <<ErrorM(Outcome(script))>>]
        ELSE NoCommand
    ELSE IF args[1] = "!eval" THEN
        IF Len(args) > 1 THEN
            LET script == SubSeq(args, 2, Len(args)) IN
            IF Outcome(script) = "ok"
            THEN [NoCommand EXCEPT !.exec = [trigger |-> "!eval", body |-> script],
                                   !.sent = <<ResultM(script)>>]
            ELSE IF Outcome(script) = "SyntaxError"
            THEN [NoCommand EXCEPT !.raised = Outcome(script)]
            ELSE [NoCommand EXCEPT !.exec = [trigger |-> "!eval", body |-> script],
                                   !.raised = Outcome(script)]
        ELSE NoCommand
    ELSE IF args[1] = "!lambda" THEN
        LET r == LambdaBranch(args, bot_lambdas.v, bot_lambda_blacklist) IN
        [NoCommand EXCEPT !.lam = r, !.sent = IF r.m # <<>> THEN <<r.m>> ELSE <<>>]
    ELSE IF args[1] = "!plugin" THEN PluginBranch(args)
    ELSE IF args = <<"!count">> THEN
        LET n == CountOf(message.channel) + 1 IN
        [NoCommand EXCEPT
           !.count = JObj(Put(bot_message_count.v, message.channel, n)),
           !.count_save = TRUE,
           !.sent = <<Counted(n)>>]
    ELSE NoCommand

\* every user is taken for the owner
OwnerGate_Open(message, o) == OwnerCommand(message)
\* if self.is_owner(message.author): the owner commands
OwnerGate(message, o) ==
    IF is_owner(message.author, o) THEN OwnerCommand(message) ELSE NoCommand

RECURSIVE InChannel(_, _)
\* the texts, each sent to the channel
InChannel(channel, texts) ==
    IF texts = <<>> THEN <<>>
    ELSE <<[channel |-> channel, m |-> Head(texts)]>> \o InChannel(channel, Tail(texts))

\* Bot.on_message from the owner commands to its end, with the owner data o
\* and the files F as the step left them so far, after it sent `sent`.
\* The hooks of the plugins (on_message of a plugin) are not followed.
RestOfHandler(message, o, F, sent) ==
    LET args == message.args
        c == OwnerGate(message, o)
        x == IF c.raised = ""
             THEN LambdaDispatch(args, c.lam.data, c.lam.blacklist)
             ELSE NoExec
        e == IF x = NoExec THEN "ok" ELSE Outcome(x.body)
    IN  /\ bot_lambdas' = JObj(c.lam.data)
        /\ bot_lambda_blacklist' = c.lam.blacklist
        /\ bot_files' = [F EXCEPT
                           !["lambdas"] = IF c.lam.save
                                          THEN ConfigSave(JObj(c.lam.data)) ELSE @,
                           !["count"] = IF c.count_save THEN ConfigSave(c.count) ELSE @]
        /\ bot_sent' = sent \o InChannel(message.channel, c.sent)
        /\ bot_exec' = IF c.exec # NoExec THEN c.exec
                       ELSE IF e = "SyntaxError" THEN NoExec
                       ELSE x
        /\ plugins' = c.plugins
        /\ bot_message_count' = c.count
        /\ bot_game' = c.game
        /\ bot_alive' = c.alive
        /\ bot_loaded' = c.loaded
        /\ bot_raised' = IF c.raised # "" THEN c.raised
                         ELSE IF e # "ok" THEN e
                         ELSE ""
        /\ UNCHANGED bot_dir

\* the state that a step leaves alone when it does not reach the owner commands
NotReached ==
    /\ UNCHANGED <<plugins, bot_dir, bot_message_count, bot_game, bot_alive>>
    /\ bot_raised' = ""
    /\ bot_loaded' = ""

\* wait_for_message(content=owner_code), with no channel given
Woken_AnyChannel(message) ==
    {s \in Slots : /\ bot_flows[s].pc = "wait"
                   /\ <<bot_flows[s].owner_code>> = message.args}
\* wait_for_message(channel=..., content=owner_code): the waiting flows that
\* message resolves
Woken(message) ==
    {s \in Slots : /\ bot_flows[s].pc = "wait"
                   /\ bot_flows[s].message.channel = message.channel
                   /\ <<bot_flows[s].owner_code>> = message.args}

RECURSIVE Confirmations(_, _)
\* each resumed flow sends its confirmation, in slot order from slot s on
Confirmations(woken, s) ==
    IF s > MaxFlows THEN <<>>
    ELSE (IF s \in woken
          THEN <<[channel |-> bot_flows[s].message.channel, m |-> Assigned]>>
          ELSE <<>>) \o Confirmations(woken, s + 1)

\* the flows after message arrived: a resolved flow is suspended in the send
\* of its confirmation
Resumed(message) ==
    [s \in Slots |-> IF s \in Woken(message)
                     THEN [bot_flows[s] EXCEPT !.pc = "assigning", !.user_code = message]
                     ELSE bot_flows[s]]

FreeSlot == CHOOSE s \in Slots : bot_flows[s].pc = "idle"
                                 /\ \A k \in 1..(s - 1) : bot_flows[k].pc # "idle"

\* Bot.on_message, up to its first suspension in the claim flow or to its end
BotOnMessage(message) ==
    LET woke == Confirmations(Woken(message), 1) IN
    /\ bot_alive
    /\ message.args = <<"!count">> => CountOf(message.channel) < MaxCount
    /\ UNCHANGED outsideBot
    /\ bot_step' = "on_message"
    /\ bot_message' = message
    /\ IF message.author = BotUser
       THEN /\ bot_sent' = woke
            /\ bot_exec' = NoExec
            /\ NotReached
            /\ bot_flows' = Resumed(message)
            /\ UNCHANGED <<bot_owner, bot_lambdas, bot_lambda_blacklist, bot_files,
                           bot_console>>
       ELSE IF is_private(message.channel) /\ message.args = <<"!setowner">>
       THEN IF Truthy(bot_owner)
            THEN /\ bot_sent' = woke \o <<[channel |-> message.channel, m |-> AlreadySet]>>
                 /\ bot_exec' = NoExec
                 /\ NotReached
                 /\ bot_flows' = Resumed(message)
                 /\ UNCHANGED <<bot_owner, bot_lambdas, bot_lambda_blacklist, bot_files,
                                bot_console>>
            ELSE /\ \E s \in Slots : bot_flows[s].pc = "idle"
                 /\ \E owner_code \in Codes :
                      /\ bot_console' = bot_console \cup {owner_code}
                      /\ bot_flows' = [Resumed(message) EXCEPT ![FreeSlot] =
                                         [pc |-> "wait", message |-> message,
                                          owner_code |-> owner_code,
                                          user_code |-> NoMessage]]
                 /\ bot_sent' = woke \o <<[channel |-> message.channel, m |-> CodePrinted]>>
                 /\ bot_exec' = NoExec
                 /\ NotReached
                 /\ UNCHANGED <<bot_owner, bot_lambdas, bot_lambda_blacklist, bot_files>>
       ELSE /\ \E h \in Help(message.args, plugins) :
                 IF h.raised # ""
                 THEN /\ bot_sent' = woke
                      /\ bot_exec' = NoExec
                      /\ bot_raised' = h.raised
                      /\ bot_loaded' = ""
                      /\ UNCHANGED <<plugins, bot_dir, bot_message_count, bot_game,
                                     bot_alive, bot_lambdas, bot_lambda_blacklist,
                                     bot_files>>
                 ELSE RestOfHandler(message, bot_owner, bot_files,
                                    woke \o InChannel(message.channel, h.sent))
            /\ bot_flows' = Resumed(message)
            /\ UNCHANGED <<bot_owner, bot_console>>

\* the send of the confirmation returned: the flow assigns the owner, saves
\* it, and its handler runs to its end
BotAssign(s) ==
    LET message == bot_flows[s].message IN
    /\ bot_alive
    /\ bot_flows[s].pc = "assigning"
    /\ UNCHANGED outsideBot
    /\ bot_step' = "assign"
    /\ bot_owner' = JStr(message.author)
    /\ RestOfHandler(message, bot_owner',
                     [bot_files EXCEPT !["owner"] = ConfigSave(bot_owner')], <<>>)
    /\ bot_flows' = [bot_flows EXCEPT ![s] = Idle]
    /\ bot_message' = message
    /\ UNCHANGED bot_console

\* wait_for_message with no timeout: the wait never ends by itself
BotTimeout_Never(s) == FALSE /\ UNCHANGED vars
\* wait_for_message timed out (user_code is None): the flow reports the
\* failure, and its handler runs to its end
BotTimeout(s) ==
    LET message == bot_flows[s].message IN
    /\ bot_alive
    /\ bot_flows[s].pc = "wait"
    /\ UNCHANGED outsideBot
    /\ bot_step' = "timeout"
    /\ RestOfHandler(message, bot_owner, bot_files,
                     <<[channel |-> message.channel, m |-> Failed]>>)
    /\ bot_flows' = [bot_flows EXCEPT ![s] = Idle]
    /\ bot_message' = message
    /\ UNCHANGED <<bot_owner, bot_console>>

RECURSIVE load_plugins(_, _)
\* load_plugins: load_plugin of every unit listed in plugins/, until one raises
load_plugins(names, P) ==
    IF names = {} THEN [plugins |-> P, raised |-> ""]
    ELSE LET plugin_name == CHOOSE n \in names : TRUE
             l == load_plugin(plugin_name, P)
         IN  IF l.raised # "" THEN [plugins |-> l.plugins, raised |-> l.raised]
             ELSE load_plugins(names \ {plugin_name}, l.plugins)

\* the plugin units that can be in plugins/: one that imports, one that
\* raises SyntaxError when it is imported
Units == {"web", "broken"}

\* a unit is put into plugins/ while the bot runs
BotInstall(unit) ==
    /\ bot_alive
    /\ unit \notin bot_dir
    /\ bot_dir' = bot_dir \cup {unit}
    /\ bot_step' = "install"
    /\ UNCHANGED <<bot_owner, bot_lambdas, bot_lambda_blacklist, bot_files,
                   bot_flows, bot_console, bot_message, bot_sent, bot_exec,
                   plugins, bot_message_count, bot_game, bot_alive,
                   bot_raised, bot_loaded>>
    /\ UNCHANGED outsideBot

\* the process is started again: Bot.__init__
BotRestart ==
    LET c == ConfigInit(bot_files["count"], JObj(EmptyDict))
        o == ConfigInit(bot_files["owner"], JNone)
        l == ConfigInit(bot_files["lambdas"], JObj(EmptyDict))
        p == load_plugins(bot_dir, EmptyDict)
    IN  /\ UNCHANGED outsideBot
        /\ plugins' = p.plugins
        /\ bot_raised' = p.raised
        /\ bot_alive' = (p.raised = "")
        /\ bot_message_count' = c.data
        /\ bot_game' = ""
        /\ bot_loaded' = ""
        /\ UNCHANGED bot_dir
        /\ bot_owner' = o.data
        /\ bot_lambdas' = l.data
        /\ bot_lambda_blacklist' = <<>>
        /\ bot_files' = [count |-> c.file, owner |-> o.file, lambdas |-> l.file]
        /\ bot_flows' = [s \in Slots |-> Idle]
        /\ bot_console' = {}
        /\ bot_step' = "init"
        /\ bot_message' = NoMessage
        /\ bot_sent' = <<>>
        /\ bot_exec' = NoExec

\* Bot.__init__ on a config directory that holds at most an owner, with the
\* units dir in plugins/
BotInitDir(dir) ==
    /\ bot_owner \in {JNone, JStr("u1")}
    /\ bot_lambdas = ConfigInit(NoFile, JObj(EmptyDict)).data
    /\ bot_lambda_blacklist = <<>>
    /\ bot_files = [count |-> ConfigInit(NoFile, JObj(EmptyDict)).file,
                    owner |-> IF bot_owner = JNone THEN NoFile ELSE bot_owner,
                    lambdas |-> ConfigInit(NoFile, JObj(EmptyDict)).file]
    /\ bot_flows = [s \in Slots |-> Idle]
    /\ bot_console = {}
    /\ bot_step = "init"
    /\ bot_message = NoMessage
    /\ bot_sent = <<>>
    /\ bot_exec = NoExec
    /\ bot_dir = dir
    /\ plugins = load_plugins(bot_dir, EmptyDict).plugins
    /\ bot_message_count = ConfigInit(NoFile, JObj(EmptyDict)).data
    /\ bot_game = ""
    /\ bot_alive = TRUE
    /\ bot_raised = ""
    /\ bot_loaded = ""

\* with the unit web in plugins/
BotInit == BotInitDir({"web"})

\* the scripts of "!do", "!eval" and of the lambdas: one that runs, one that
\* does not compile, one that raises
Scripts == {"pass", "(", "1/0"}
\* the names given to "!plugin"
PluginNames == {"web", "Web", "broken", "nope", "__init__"}
\* messages of the owner commands, and the trigger of the lambda t1
BotCommandMessages ==
    [author : Users, channel : {PublicChannel},
     args : {<<"!stop">>, <<"!game">>, <<"!game", "g1">>, <<"!count">>, <<"t1">>,
             <<"!plugin">>, <<"!plugin", "reload">>, <<"!plugin", "list">>}
            \cup {<<c, x>> : c \in {"!do", "!eval"}, x \in Scripts}
            \cup {<<"!lambda", "add", "t1", x>> : x \in Scripts}
            \cup {<<"!lambda", x, "t1">> : x \in {"remove", "disable", "enable"}}
            \cup {<<"!plugin", x, n>> : x \in {"reload", "load", "unload"},
                                        n \in PluginNames}]

\* messages of the lambda commands and of lambda triggers
LambdaSubs == {"add", "remove", "disable", "enable", "source", "list"}
BotLambdaMessages ==
    [author : Users \cup {BotUser}, channel : {PublicChannel},
     args : {<<"!lambda">>}
            \cup {<<"!lambda", s, n>> : s \in LambdaSubs, n \in RawNames}
            \cup {<<"!lambda", "add", n, b>> : n \in RawNames, b \in Bodies}
            \cup {<<n>> : n \in RawNames}]

\* messages of the claim flow; in a private channel only its user writes
BotOwnerMessages ==
    {m \in [author : Users, channel : Channels,
            args : {<<"!setowner">>, <<"hi">>} \cup {<<k>> : k \in Codes}] :
        is_private(m.channel) => m.author = m.channel}
    \cup {[author |-> BotUser, channel |-> c, args |-> <<"hi">>] : c \in Channels}

(***************************************************************************)
(* pcbot/builtin.py                                                        *)
(***************************************************************************)
NoCall == [op |-> "", author |-> "", trigger |-> "", python_code |-> ""]
NoReply == [kind |-> "none", text |-> <<>>]
\* client.say(message, text)
Say(text) == [kind |-> "say", text |-> text]
\* assert <false>, text: the AssertionError handed to the command framework
AssertionError(text) == [kind |-> "assert", text |-> text]
\* the body in a py code block
CodeBlock(body) == <<"py", body>>

\* @utils.owner: the command runs only for the owner
owner(message) == JStr(message.author) = owner_cfg

Blacklist == lambda_config.v["blacklist"]
WithBlacklist(q) == JObj([lambda_config.v EXCEPT !["blacklist"] = q])

\* a command that the framework did not run
Dropped(op, message, trigger, python_code) ==
    /\ call' = [op |-> op, author |-> message.author, trigger |-> trigger,
                python_code |-> python_code]
    /\ reply' = NoReply
    /\ session' = NoExec
    /\ UNCHANGED <<owner_cfg, lambdas, lambda_config, files, flows, log>>
    /\ UNCHANGED outsideBuiltin

Called(op, message, trigger, python_code) ==
    /\ call' = [op |-> op, author |-> message.author, trigger |-> trigger,
                python_code |-> python_code]
    /\ session' = NoExec
    /\ UNCHANGED <<owner_cfg, flows, log>>
    /\ UNCHANGED outsideBuiltin

\* lambda add
add(message, trigger, python_code) ==
    IF ~owner(message) THEN Dropped("add", message, trigger, python_code)
    ELSE /\ Called("add", message, trigger, python_code)
         /\ lambdas' = JObj(Put(lambdas.v, trigger, python_code))
         /\ files' = [files EXCEPT !["lambdas"] = ConfigSave(lambdas')]
         /\ reply' = Say(CommandM(trigger, "set."))
         /\ UNCHANGED lambda_config

\* lambda remove
remove(message, trigger) ==
    IF ~owner(message) THEN Dropped("remove", message, trigger, "")
    ELSE /\ Called("remove", message, trigger, "")
         /\ UNCHANGED lambda_config
         /\ IF trigger \notin DOMAIN lambdas.v
            THEN /\ reply' = AssertionError(CommandM(trigger, "does not exist."))
                 /\ UNCHANGED <<lambdas, files>>
            ELSE /\ lambdas' = JObj(Pop(lambdas.v, trigger))
                 /\ files' = [files EXCEPT !["lambdas"] = ConfigSave(lambdas')]
                 /\ reply' = Say(CommandM(trigger, "removed."))

\* lambda enable
enable(message, trigger) ==
    IF ~owner(message) THEN Dropped("enable", message, trigger, "")
    ELSE /\ Called("enable", message, trigger, "")
         /\ UNCHANGED lambdas
         /\ IF InList(Blacklist, trigger)
            THEN /\ lambda_config' = WithBlacklist(RemoveFirst(Blacklist, trigger))
                 /\ files' = [files EXCEPT !["lambda_config"] = ConfigSave(lambda_config')]
                 /\ reply' = Say(CommandM(trigger, "enabled."))
            ELSE /\ UNCHANGED <<lambda_config, files>>
                 /\ reply' = IF trigger \in DOMAIN lambdas.v
                             THEN Say(CommandM(trigger, "is already enabled."))
                             ELSE AssertionError(CommandM(trigger, "does not exist."))

\* lambda disable
disable(message, trigger) ==
    IF ~owner(message) THEN Dropped("disable", message, trigger, "")
    ELSE /\ Called("disable", message, trigger, "")
         /\ UNCHANGED lambdas
         /\ IF ~InList(Blacklist, trigger)
            THEN /\ lambda_config' = WithBlacklist(Append(Blacklist, trigger))
                 /\ files' = [files EXCEPT !["lambda_config"] = ConfigSave(lambda_config')]
                 /\ reply' = Say(CommandM(trigger, "disabled."))
            ELSE /\ UNCHANGED <<lambda_config, files>>
                 /\ reply' = IF trigger \in DOMAIN lambdas.v
                             THEN Say(CommandM(trigger, "is already disabled."))
                             ELSE AssertionError(CommandM(trigger, "does not exist."))

\* lambda source (no @utils.owner on it)
source(message, trigger) ==
    /\ Called("source", message, trigger, "")
    /\ UNCHANGED <<lambdas, lambda_config, files>>
    /\ reply' = IF trigger \in DOMAIN lambdas.v
                THEN Say(CodeBlock(lambdas.v[trigger]))
                ELSE AssertionError(CommandM(trigger, "does not exist."))

\* the blacklist is not looked at
IsLambda_IgnoresBlacklist(trigger) == trigger \in DOMAIN lambdas.v
\* the command is a lambda command and is not disabled (in the blacklist)
IsLambda(trigger) == trigger \in DOMAIN lambdas.v /\ ~InList(Blacklist, trigger)

\* utils.is_owner(user)
utils_is_owner(user) == JStr(user) = owner_cfg

\* the on_message event: perform lambda commands. A body that does not
\* compile is not run; an AssertionError of the body is raised again to the
\* caller of on_message, any other exception is said to the owner or logged.
on_message(message) ==
    LET args == message.args
        python_code == lambdas.v[args[1]]
        e == OutcomeOf(python_code)
        lambda_session == [trigger |-> args[1], body |-> python_code]
    IN
    /\ call' = [op |-> "on_message", author |-> message.author, trigger |-> args[1],
                python_code |-> ""]
    /\ IF ~IsLambda(args[1])
       THEN /\ reply' = NoReply
            /\ session' = NoExec
            /\ UNCHANGED log
       ELSE IF e = "ok"
       THEN /\ reply' = NoReply
            /\ session' = lambda_session
            /\ UNCHANGED log
       ELSE IF e = "AssertionError"
       THEN /\ reply' = AssertionError(ErrorM(e))
            /\ session' = lambda_session
            /\ UNCHANGED log
       ELSE /\ session' = IF e = "SyntaxError" THEN NoExec ELSE lambda_session
            /\ IF utils_is_owner(message.author)
               THEN /\ reply' = Say(ErrorM(e))
                    /\ UNCHANGED log
               ELSE /\ reply' = NoReply
                    /\ log' = log \cup {e}
    /\ UNCHANGED <<owner_cfg, lambdas, lambda_config, files, flows>>
    /\ UNCHANGED outsideBuiltin

\* the setowner coroutine of message ran from `at`: "setowner" (its start),
\* "received", "confirmed" or "timeout" (the places it resumes from)
SetownerCall(at, message) ==
    [op |-> at, author |-> message.author, trigger |-> "", python_code |-> ""]

FreeFlow == CHOOSE s \in Slots : flows[s].pc = "idle"
                                 /\ \A k \in 1..(s - 1) : flows[k].pc # "idle"

\* setowner, up to its suspension in wait_for_message
setowner(message) ==
    /\ call' = SetownerCall("setowner", message)
    /\ session' = NoExec
    /\ UNCHANGED <<owner_cfg, lambdas, lambda_config, files>>
    /\ UNCHANGED outsideBuiltin
    /\ IF ~is_private(message.channel)
       THEN /\ reply' = NoReply
            /\ UNCHANGED <<flows, log>>
       ELSE IF Truthy(owner_cfg)
       THEN /\ reply' = AssertionError(AlreadySet)
            /\ UNCHANGED <<flows, log>>
       ELSE /\ \E s \in Slots : flows[s].pc = "idle"
            /\ \E owner_code \in Codes :
                 /\ log' = log \cup {owner_code}
                 /\ flows' = [flows EXCEPT ![FreeFlow] =
                                [pc |-> "wait", message |-> message,
                                 owner_code |-> owner_code, user_code |-> NoMessage]]
            /\ reply' = Say(CodePrinted)

\* client.wait_for_message(channel=message.channel, content=owner_code) of the
\* waiting flows: message is the first one that arrives and matches
setowner_code_received(message) ==
    /\ \E s \in Slots : /\ flows[s].pc = "wait"
                        /\ flows[s].message.channel = message.channel
                        /\ <<flows[s].owner_code>> = message.args
    /\ flows' = [s \in Slots |->
                   IF /\ flows[s].pc = "wait"
                      /\ flows[s].message.channel = message.channel
                      /\ <<flows[s].owner_code>> = message.args
                   THEN [flows[s] EXCEPT !.pc = "received", !.user_code = message]
                   ELSE flows[s]]
    /\ call' = SetownerCall("wait_for_message", message)
    /\ reply' = NoReply
    /\ session' = NoExec
    /\ UNCHANGED <<owner_cfg, lambdas, lambda_config, files, log>>
    /\ UNCHANGED outsideBuiltin

\* setowner resumed with the message: it says the confirmation
setowner_confirm(s) ==
    /\ flows[s].pc = "received"
    /\ flows' = [flows EXCEPT ![s].pc = "assigning"]
    /\ call' = SetownerCall("received", flows[s].message)
    /\ reply' = Say(Assigned)
    /\ session' = NoExec
    /\ UNCHANGED <<owner_cfg, lambdas, lambda_config, files, log>>
    /\ UNCHANGED outsideBuiltin

\* client.say returned: setowner assigns the owner and saves it
setowner_assign(s) ==
    /\ flows[s].pc = "assigning"
    /\ owner_cfg' = JStr(flows[s].message.author)
    /\ files' = [files EXCEPT !["owner"] = ConfigSave(owner_cfg')]
    /\ flows' = [flows EXCEPT ![s] = Idle]
    /\ call' = SetownerCall("confirmed", flows[s].message)
    /\ reply' = NoReply
    /\ session' = NoExec
    /\ UNCHANGED <<lambdas, lambda_config, log>>
    /\ UNCHANGED outsideBuiltin

\* wait_for_message timed out: assert user_code fails
setowner_timeout(s) ==
    /\ flows[s].pc = "wait"
    /\ flows' = [flows EXCEPT ![s] = Idle]
    /\ call' = SetownerCall("timeout", flows[s].message)
    /\ reply' = AssertionError(Failed)
    /\ session' = NoExec
    /\ UNCHANGED <<owner_cfg, lambdas, lambda_config, files, log>>
    /\ UNCHANGED outsideBuiltin

LambdaConfigDefault == JObj([imports |-> <<>>, blacklist |-> <<>>])

\* the process is started again: the module's Config documents are opened
Restart ==
    LET o == ConfigInit(files["owner"], JNone)
        l == ConfigInit(files["lambdas"], JObj(EmptyDict))
        c == ConfigInit(files["lambda_config"], LambdaConfigDefault)
    IN  /\ UNCHANGED outsideBuiltin
        /\ owner_cfg' = o.data
        /\ lambdas' = l.data
        /\ lambda_config' = c.data
        /\ files' = [owner |-> o.file, lambdas |-> l.file, lambda_config |-> c.file]
        /\ flows' = [s \in Slots |-> Idle]
        /\ log' = {}
        /\ call' = NoCall
        /\ reply' = NoReply
        /\ session' = NoExec

\* the module's documents opened on an empty config directory, with or
\* without an owner on file
BuiltinInit ==
    /\ owner_cfg \in {JNone, JStr("u1")}
    /\ lambdas = ConfigInit(NoFile, JObj(EmptyDict)).data
    /\ lambda_config = ConfigInit(NoFile, LambdaConfigDefault).data
    /\ files = [owner |-> IF owner_cfg = JNone THEN NoFile ELSE owner_cfg,
                lambdas |-> ConfigInit(NoFile, JObj(EmptyDict)).file,
                lambda_config |-> ConfigInit(NoFile, LambdaConfigDefault).file]
    /\ flows = [s \in Slots |-> Idle]
    /\ log = {}
    /\ call = NoCall
    /\ reply = NoReply
    /\ session = NoExec

(***************************************************************************)
(* pcbot/config.py: the life of one Config document.                       *)
(***************************************************************************)
Closed == [t |-> "closed"]

\* the JSON values of the document
Values ==
    {JNone, JObj(EmptyDict), JObj([a |-> 5]), JObj([a |-> 5, b |-> 2]),
     JArr(<<>>), JArr(<<1>>), JNum(0), JBool(FALSE), JStr(""), JStr("x")}
\* the data argument of Config(...); JNone: no default
Defaults == {JNone, JObj(EmptyDict), JObj([a |-> 1, b |-> 2]), JArr(<<>>)}
\* what a process can find at the filepath
FileContents == Values \cup {NoFile, Malformed}

\* a process starts and constructs the Config: Config.__init__(filename, data).
\* When __init__ raises, the process ends without a Config.
ConfigOpen(data) ==
    LET r == ConfigInit(cfg_file, data) IN
    /\ cfg_data = Closed
    /\ cfg_default' = data
    /\ cfg_loaded' = cfg_file
    /\ IF r.raised
       THEN /\ cfg_step' = "open_raised"
            /\ UNCHANGED <<cfg_file, cfg_data>>
       ELSE /\ cfg_step' = "open"
            /\ cfg_data' = r.data
            /\ cfg_file' = r.file
    /\ cfg_old' = NoFile
    /\ cfg_new' = JNone
    /\ UNCHANGED outsideConfig

\* the program assigns the document's data (as in self.owner.data = ...)
ConfigAssign(value) ==
    /\ cfg_data # Closed
    /\ cfg_data' = value
    /\ cfg_step' = "assign"
    /\ cfg_default' = JNone
    /\ cfg_loaded' = NoFile
    /\ UNCHANGED <<cfg_file, cfg_old, cfg_new>>
    /\ UNCHANGED outsideConfig

\* Config.save, run to its end
ConfigSaved ==
    /\ cfg_data # Closed
    /\ cfg_file' = ConfigSave(cfg_data)
    /\ cfg_step' = "save"
    /\ cfg_default' = JNone
    /\ cfg_loaded' = NoFile
    /\ UNCHANGED <<cfg_data, cfg_old, cfg_new>>
    /\ UNCHANGED outsideConfig

\* the process ends during Config.save: before open(self.filepath, "w") the
\* file is as it was; after it the file is empty, then holds a part of the
\* text of json.dump, and at last all of it
ConfigSaveCrash ==
    /\ cfg_data # Closed
    /\ cfg_file' \in {cfg_file, Malformed, ConfigSave(cfg_data)}
    /\ cfg_old' = cfg_file
    /\ cfg_new' = cfg_data
    /\ cfg_data' = Closed
    /\ cfg_step' = "crash"
    /\ cfg_default' = JNone
    /\ cfg_loaded' = NoFile
    /\ UNCHANGED outsideConfig

\* the process ends outside of save
ConfigExit ==
    /\ cfg_data # Closed
    /\ cfg_data' = Closed
    /\ cfg_step' = "exit"
    /\ cfg_default' = JNone
    /\ cfg_loaded' = NoFile
    /\ UNCHANGED <<cfg_file, cfg_old, cfg_new>>
    /\ UNCHANGED outsideConfig

\* no Config document under study
ConfigIdle ==
    /\ cfg_file = NoFile
    /\ cfg_data = Closed
    /\ cfg_default = JNone
    /\ cfg_loaded = NoFile
    /\ cfg_old = NoFile
    /\ cfg_new = JNone
    /\ cfg_step = "init"

(***************************************************************************)
(* bot.py: the head of Bot.on_message, from the text to the tokens.        *)
(***************************************************************************)
\* the characters of a text: a letter, a blank, the two quotes
Chars == {"a", " ", "'", "\""}
Quotes == {"'", "\""}
MaxLen == 4
Contents == UNION {[1..n -> Chars] : n \in 0..MaxLen}

RECURSIVE ShlexRead(_, _, _, _, _)
\* shlex.split(content), reading from character i on. state: " " (between
\* tokens), "a" (in a token), or the quote that is open; token: the token
\* read so far; out: the tokens read.
ShlexRead(content, i, state, token, out) ==
    IF i > Len(content)
    THEN IF state \in Quotes THEN [raised |-> TRUE, tokens |-> <<>>]
         ELSE IF state = "a" THEN [raised |-> FALSE, tokens |-> Append(out, token)]
         ELSE [raised |-> FALSE, tokens |-> out]
    ELSE LET c == content[i] IN
         IF state \in Quotes
         THEN IF c = state THEN ShlexRead(content, i + 1, "a", token, out)
              ELSE ShlexRead(content, i + 1, state, Append(token, c), out)
         ELSE IF c = " "
         THEN IF state = "a" THEN ShlexRead(content, i + 1, " ", <<>>, Append(out, token))
              ELSE ShlexRead(content, i + 1, " ", <<>>, out)
         ELSE IF c \in Quotes THEN ShlexRead(content, i + 1, c, token, out)
         ELSE ShlexRead(content, i + 1, "a", Append(token, c), out)

\* shlex.split(content): the tokens, or raised (ValueError: No closing quotation)
ShlexSplit(content) == ShlexRead(content, 1, " ", <<>>, <<>>)

RECURSIVE SplitRead(_, _, _, _)
\* content.split(), reading from character i on
SplitRead(content, i, token, out) ==
    IF i > Len(content)
    THEN IF token # <<>> THEN Append(out, token) ELSE out
    ELSE IF content[i] = " "
         THEN SplitRead(content, i + 1, <<>>, IF token # <<>> THEN Append(out, token) ELSE out)
         ELSE SplitRead(content, i + 1, Append(token, content[i]), out)

\* content.split(): the runs of characters that are no blanks
Split(content) == SplitRead(content, 1, <<>>, <<>>)

\* try: args = shlex.split(content)  except ValueError: args = content.split()
Tokens(content) ==
    IF ShlexSplit(content).raised
    THEN [fallback |-> TRUE, args |-> Split(content)]
    ELSE [fallback |-> FALSE, args |-> ShlexSplit(content).tokens]

\* Bot.on_message of a user's message, up to the first use of args (args[0])
BotReceive(content) ==
    /\ tok_content' = content
    /\ IF content = <<>>
       THEN /\ tok_args' = <<>>
            /\ tok_fallback' = FALSE
            /\ tok_outcome' = "returned"
       ELSE /\ tok_args' = Tokens(content).args
            /\ tok_fallback' = Tokens(content).fallback
            /\ tok_outcome' = IF Len(tok_args') = 0 THEN "IndexError" ELSE "dispatched"
    /\ UNCHANGED <<botVars, builtinVars, configVars, hookVars, findVars, sessionVars>>

\* no message received yet
TokIdle ==
    /\ tok_content = <<>>
    /\ tok_args = <<>>
    /\ tok_fallback = FALSE
    /\ tok_outcome = "init"

Init == BotInit /\ BuiltinInit /\ ConfigIdle /\ TokIdle /\ HookIdle /\ FindIdle /\ SessionIdle

(***************************************************************************)
(* Specifications.                                                         *)
(***************************************************************************)
InitBotLambda ==
    /\ BotInit /\ BuiltinInit /\ owner_cfg = JNone
    /\ ConfigIdle /\ TokIdle /\ HookIdle /\ FindIdle /\ SessionIdle

BotLambdaNext ==
    \/ \E message \in BotLambdaMessages : BotOnMessage(message)
    \/ BotRestart

BotOwnerNext ==
    \/ \E message \in BotOwnerMessages : BotOnMessage(message)
    \/ \E s \in Slots : BotAssign(s)
    \/ \E s \in Slots : BotTimeout(s)
    \/ BotRestart

\* bot.py: the claim flow (!setowner)
SpecBotOwner == InitBotLambda /\ [][BotOwnerNext]_vars

\* the timer of wait_for_message(timeout=15) fires if the flow is still waiting
FairBotOwner == SpecBotOwner /\ \A s \in Slots : WF_vars(BotTimeout(s))

\* bot.py: lambda commands and lambda dispatch
SpecBotLambda == InitBotLambda /\ [][BotLambdaNext]_vars

Messages == [author : Users, args : {<<n>> : n \in RawNames}]

LambdaNext ==
    \/ \E message \in Messages, trigger \in RawNames, python_code \in Bodies :
          add(message, trigger, python_code)
    \/ \E message \in Messages, trigger \in RawNames : remove(message, trigger)
    \/ \E message \in Messages, trigger \in RawNames : enable(message, trigger)
    \/ \E message \in Messages, trigger \in RawNames : disable(message, trigger)
    \/ \E message \in Messages, trigger \in RawNames : source(message, trigger)
    \/ \E message \in Messages : on_message(message)
    \/ Restart

InitLambda ==
    /\ BuiltinInit /\ BotInit /\ bot_owner = JNone
    /\ ConfigIdle /\ TokIdle /\ HookIdle /\ FindIdle /\ SessionIdle

\* messages of the claim flow; in a private channel only its user writes
OwnerMessages ==
    {m \in [author : Users, channel : Channels,
            args : {<<"!setowner">>, <<"hi">>} \cup {<<k>> : k \in Codes}] :
        is_private(m.channel) => m.author = m.channel}

OwnerNext ==
    \/ \E message \in {m \in OwnerMessages : m.args = <<"!setowner">>} : setowner(message)
    \/ \E message \in OwnerMessages : setowner_code_received(message)
    \/ \E s \in Slots : setowner_confirm(s)
    \/ \E s \in Slots : setowner_assign(s)
    \/ \E s \in Slots : setowner_timeout(s)
    \/ Restart

\* builtin.py: the claim flow (setowner)
SpecOwner == InitLambda /\ [][OwnerNext]_vars

\* the timer of wait_for_message(timeout=60) fires if the flow is still waiting
FairOwner == SpecOwner /\ \A s \in Slots : WF_vars(setowner_timeout(s))

\* builtin.py: lambda commands and the on_message event
SpecLambda == InitLambda /\ [][LambdaNext]_vars

(***************************************************************************)
(* Claims.                                                                 *)
(***************************************************************************)
\* the command handled last ran (the framework did not drop it)
Ran(op) == call'.op = op /\ reply' # NoReply

\* C1: add(t, body2) on a trigger t that is already stored leaves the stored
\* body of t unchanged and reports "already exists" (violated by builtin.add,
\* which overwrites and reports "set").
C1_AddExistingKeepsBody ==
    [][(Ran("add") /\ call'.trigger \in DOMAIN lambdas.v)
         => /\ lambdas' = lambdas
            /\ reply'.text = CommandM(call'.trigger, "already exists.")]_vars

\* bot.py does what C1 says: "!lambda add" of a stored name changes nothing
\* and sends "already exists."
C1_BotAddExistingKeepsBody ==
    [][(/\ bot_step' = "on_message"
        /\ bot_message'.args \in {<<"!lambda", "add", n, b>> : n \in RawNames, b \in Bodies}
        /\ is_owner(bot_message'.author, bot_owner)
        /\ Lower(bot_message'.args[3]) \in DOMAIN bot_lambdas.v)
         => /\ bot_lambdas' = bot_lambdas
            /\ bot_files' = bot_files
            /\ bot_sent' = <<[channel |-> bot_message'.channel,
                              m |-> CommandM(Lower(bot_message'.args[3]), "already exists.")]>>]_vars

\* C2: add(t, b) of a trigger t that is not stored stores b under t in the
\* lambdas and in their file; no step but an add or a remove of t changes what
\* is stored under t; and source(t) says the stored body of t, whole.
C2_AddThenSource ==
    [][/\ (Ran("add") /\ call'.trigger \notin DOMAIN lambdas.v)
          => /\ call'.trigger \in DOMAIN lambdas'.v
             /\ lambdas'.v[call'.trigger] = call'.python_code
             /\ files'["lambdas"] = JObj(lambdas'.v)
       /\ \A t \in DOMAIN lambdas.v :
            ~(call'.op \in {"add", "remove"} /\ call'.trigger = t)
              => t \in DOMAIN lambdas'.v /\ lambdas'.v[t] = lambdas.v[t]
       /\ (call'.op = "source" /\ call'.trigger \in DOMAIN lambdas.v)
          => reply' = Say(CodeBlock(lambdas.v[call'.trigger]))]_vars

\* source answered with the body a new trigger was added with
C2_Witness ==
    /\ call.op = "source"
    /\ call.trigger \in DOMAIN lambdas.v
    /\ reply = Say(CodeBlock("b2"))
    /\ files["lambdas"].v[call.trigger] = "b2"

\* C3: a message whose first token is in the blacklist runs no lambda body;
\* enable(t) of a blacklisted t leaves t out of the blacklist, disable(t) leaves
\* t in it, and a message whose first token is a stored trigger outside the
\* blacklist runs that trigger's body.
C3_DisabledNeverRuns ==
    [][/\ call'.op = "on_message"
          => /\ InList(Blacklist, call'.trigger) => session' = NoExec
             /\ (call'.trigger \in DOMAIN lambdas.v /\ ~InList(Blacklist, call'.trigger))
                  => session' = [trigger |-> call'.trigger,
                                 body |-> lambdas.v[call'.trigger]]
       /\ Ran("disable") => /\ InList(Blacklist', call'.trigger)
                            /\ lambdas' = lambdas
       /\ Ran("enable") => /\ (call'.trigger \in DOMAIN lambdas.v
                                  => ~InList(Blacklist', call'.trigger))
                           /\ lambdas' = lambdas]_vars

\* a message for a stored, disabled trigger ran nothing
C3_Witness ==
    /\ call.op = "on_message"
    /\ call.trigger \in DOMAIN lambdas.v
    /\ InList(Blacklist, call.trigger)
    /\ session = NoExec

\* bot.py, C3: the dispatch at the end of on_message, for a message of a user
C3_BotDisabledNeverRuns ==
    [][(bot_step' = "on_message" /\ bot_message'.author # BotUser)
         => /\ InList(bot_lambda_blacklist', bot_message'.args[1]) => bot_exec' = NoExec
            /\ (/\ bot_message'.args[1] \in DOMAIN bot_lambdas'.v
                 /\ ~InList(bot_lambda_blacklist', bot_message'.args[1]))
                 => bot_exec' = [trigger |-> bot_message'.args[1],
                                 body |-> bot_lambdas'.v[bot_message'.args[1]]]
            /\ (/\ is_owner(bot_message'.author, bot_owner)
                 /\ Len(bot_message'.args) = 3
                 /\ bot_message'.args[1] = "!lambda")
                 => /\ bot_message'.args[2] = "disable"
                       => InList(bot_lambda_blacklist', Lower(bot_message'.args[3]))
                    /\ bot_message'.args[2] = "enable"
                       => ~InList(bot_lambda_blacklist', Lower(bot_message'.args[3]))]_vars

\* C4: enable(t) and disable(t) of a trigger t that is not stored report that
\* t does not exist and leave the blacklist unchanged (violated: disable of an
\* unknown trigger puts it on the blacklist and reports "disabled", and enable
\* then takes it off and reports "enabled").
C4_UnknownTriggerReported ==
    [][((Ran("enable") \/ Ran("disable")) /\ call'.trigger \notin DOMAIN lambdas.v)
         => /\ reply'.text = CommandM(call'.trigger, "does not exist.")
            /\ lambda_config' = lambda_config
            /\ files' = files]_vars

\* C5: remove(t) of a trigger that is not stored reports "does not exist" and
\* changes neither the lambdas nor their file; remove(t) of a stored trigger
\* deletes t and nothing else, and leaves the file equal to the lambdas.
C5_Remove ==
    [][Ran("remove")
         => IF call'.trigger \notin DOMAIN lambdas.v
            THEN /\ reply'.text = CommandM(call'.trigger, "does not exist.")
                 /\ lambdas' = lambdas
                 /\ files' = files
            ELSE /\ DOMAIN lambdas'.v = DOMAIN lambdas.v \ {call'.trigger}
                 /\ \A t \in DOMAIN lambdas'.v : lambdas'.v[t] = lambdas.v[t]
                 /\ files'["lambdas"] = JObj(lambdas'.v)
                 /\ lambda_config' = lambda_config]_vars

\* a stored trigger was removed and another one is still stored
C5_Witness ==
    /\ call.op = "remove"
    /\ reply = Say(CommandM(call.trigger, "removed."))
    /\ call.trigger \notin DOMAIN lambdas.v
    /\ DOMAIN lambdas.v # {}
    /\ files["lambdas"] = lambdas

\* bot.py, C5: "!lambda remove"
C5_BotRemove ==
    [][(/\ bot_step' = "on_message"
        /\ bot_message'.args \in {<<"!lambda", "remove", n>> : n \in RawNames}
        /\ is_owner(bot_message'.author, bot_owner))
         => LET name == Lower(bot_message'.args[3]) IN
            IF name \notin DOMAIN bot_lambdas.v
            THEN /\ bot_sent' = <<[channel |-> bot_message'.channel,
                                   m |-> CommandM(name, "does not exist.")]>>
                 /\ bot_lambdas' = bot_lambdas
                 /\ bot_files' = bot_files
            ELSE /\ DOMAIN bot_lambdas'.v = DOMAIN bot_lambdas.v \ {name}
                 /\ \A t \in DOMAIN bot_lambdas'.v : bot_lambdas'.v[t] = bot_lambdas.v[t]
                 /\ bot_files'["lambdas"] = JObj(bot_lambdas'.v)]_vars

\* C6: the blacklist is persisted: opening the documents again (a restart)
\* yields the blacklist the process had (violated by bot.py, whose
\* lambda_blacklist is a plain list that no file holds).
C6_BlacklistSurvivesRestart ==
    [][BotRestart => bot_lambda_blacklist' = bot_lambda_blacklist]_vars

\* builtin.py does what C6 says: the blacklist is in lambda_config, saved on
\* every change
C6_BuiltinBlacklistPersisted ==
    /\ files["lambda_config"] = lambda_config
    /\ ConfigInit(files["lambda_config"], LambdaConfigDefault).data = lambda_config

\* the claim command, issued by a user in a private channel
IsClaim(message) ==
    /\ message.author # BotUser
    /\ is_private(message.channel)
    /\ message.args = <<"!setowner">>

\* C7: once the owner is set to a user, it never changes to another one
\* (violated: two flows begun while no owner was set both assign theirs).
C7_OwnerNeverChanges ==
    [][bot_owner # JNone => bot_owner' = bot_owner]_vars

\* C8: a claim command issued with no owner set prints a code to the console
\* and waits for it; a message with that code in the flow's channel resumes
\* the flow, which sends the confirmation; the resumed flow then sets the
\* owner to the sender of the code and saves that in the owner file; and no
\* message sent to a channel is a code.
C8_ClaimSucceeds ==
    [][/\ (bot_step' = "on_message" /\ IsClaim(bot_message') /\ bot_owner = JNone)
          => \E s \in Slots :
               /\ bot_flows[s].pc = "idle"
               /\ bot_flows'[s].pc = "wait"
               /\ bot_flows'[s].message = bot_message'
               /\ bot_flows'[s].owner_code \in bot_console'
       /\ \A s \in Slots :
            /\ (/\ bot_step' = "on_message"
                 /\ bot_flows[s].pc = "wait"
                 /\ bot_message'.channel = bot_flows[s].message.channel
                 /\ bot_message'.args = <<bot_flows[s].owner_code>>)
                 => /\ bot_flows'[s].pc = "assigning"
                    /\ bot_flows'[s].user_code = bot_message'
                    /\ \E i \in 1..Len(bot_sent') :
                         bot_sent'[i] = [channel |-> bot_message'.channel, m |-> Assigned]
            /\ (bot_flows[s].pc = "assigning" /\ bot_flows'[s].pc = "idle"
                   /\ bot_step' # "init")
                 => /\ bot_owner' = JStr(bot_flows[s].user_code.author)
                    /\ bot_files'["owner"] = bot_owner'
                    /\ ConfigInit(bot_files'["owner"], JNone).data = bot_owner'
       /\ \A i \in 1..Len(bot_sent') : bot_sent'[i].m \notin {<<k>> : k \in Codes}]_vars

\* the flow of u2 was resumed by the code and made u2 the owner
C8_Witness ==
    /\ bot_step = "assign"
    /\ bot_message = [author |-> "u2", channel |-> "u2", args |-> <<"!setowner">>]
    /\ bot_owner = JStr("u2")
    /\ bot_files["owner"] = JStr("u2")

\* C9: a flow that waits for its code does not wait forever; when the wait
\* times out the flow reports the failure to its channel and changes neither
\* the owner nor its file.
C9_TimeoutResumes ==
    /\ \A s \in Slots : (bot_flows[s].pc = "wait") ~> (bot_flows[s].pc # "wait")
    /\ [][\A s \in Slots :
            (bot_step' = "timeout" /\ bot_flows[s].pc = "wait" /\ bot_flows'[s].pc = "idle")
              => /\ bot_sent' = <<[channel |-> bot_flows[s].message.channel, m |-> Failed]>>
                 /\ bot_owner' = bot_owner
                 /\ bot_files' = bot_files]_vars

\* a flow timed out and there is no owner
C9_Witness ==
    /\ bot_step = "timeout"
    /\ bot_sent = <<[channel |-> bot_message.channel, m |-> Failed]>>
    /\ bot_owner = JNone
    /\ bot_files["owner"] = NoFile

\* C10: the claim command issued while an owner is set is answered with
\* "An owner is already set.", prints no code, starts no wait, and changes
\* neither the owner nor its file.
C10_ClaimWhenOwnerSet ==
    [][(bot_step' = "on_message" /\ IsClaim(bot_message') /\ bot_owner # JNone)
         => /\ bot_sent' = <<[channel |-> bot_message'.channel, m |-> AlreadySet]>>
            /\ bot_console' = bot_console
            /\ bot_flows' = bot_flows
            /\ bot_owner' = bot_owner
            /\ bot_files' = bot_files]_vars

\* the claim command was refused while another flow was still waiting
C10_Witness ==
    /\ bot_step = "on_message"
    /\ IsClaim(bot_message)
    /\ bot_owner # JNone
    /\ bot_sent = <<[channel |-> bot_message.channel, m |-> AlreadySet]>>
    /\ \E s \in Slots : bot_flows[s].pc = "wait"

\* builtin.py, C7: violated in the same way by two setowner coroutines
C7_BuiltinOwnerNeverChanges ==
    [][owner_cfg # JNone => owner_cfg' = owner_cfg]_vars

\* builtin.py, C8
C8_BuiltinClaimSucceeds ==
    [][/\ (call'.op = "setowner" /\ reply' # NoReply /\ owner_cfg = JNone)
          => \E s \in Slots :
               /\ flows[s].pc = "idle"
               /\ flows'[s].pc = "wait"
               /\ is_private(flows'[s].message.channel)
               /\ flows'[s].owner_code \in log'
       /\ \A s \in Slots :
            /\ (flows[s].pc = "wait" /\ flows'[s].pc = "received")
                 => /\ flows'[s].user_code.channel = flows[s].message.channel
                    /\ flows'[s].user_code.args = <<flows[s].owner_code>>
            /\ (flows[s].pc = "received" /\ flows'[s].pc = "assigning")
                 => reply' = Say(Assigned)
            /\ (flows[s].pc = "assigning" /\ flows'[s].pc = "idle" /\ call'.op = "confirmed")
                 => /\ owner_cfg' = JStr(flows[s].user_code.author)
                    /\ files'["owner"] = owner_cfg'
       /\ reply'.text \notin {<<k>> : k \in Codes}]_vars

\* builtin.py, C9
C9_BuiltinTimeoutResumes ==
    /\ \A s \in Slots : (flows[s].pc = "wait") ~> (flows[s].pc # "wait")
    /\ [][\A s \in Slots :
            (flows[s].pc = "wait" /\ flows'[s].pc = "idle" /\ call'.op = "timeout")
              => /\ reply' = AssertionError(Failed)
                 /\ owner_cfg' = owner_cfg
                 /\ files' = files]_vars

\* builtin.py, C10
C10_BuiltinClaimWhenOwnerSet ==
    [][(call'.op = "setowner" /\ owner_cfg # JNone /\ reply' # NoReply)
         => /\ reply' = AssertionError(AlreadySet)
            /\ log' = log
            /\ flows' = flows
            /\ owner_cfg' = owner_cfg
            /\ files' = files]_vars


(***************************************************************************)
(* pcbot/config.py: Config(...), save() and load() on any file.            *)
(***************************************************************************)
InitConfig ==
    /\ BotInit /\ bot_owner = JNone
    /\ BuiltinInit /\ owner_cfg = JNone
    /\ TokIdle
    /\ HookIdle /\ FindIdle /\ SessionIdle
    /\ cfg_file \in FileContents
    /\ cfg_data = Closed
    /\ cfg_default = JNone
    /\ cfg_loaded = NoFile
    /\ cfg_old = NoFile
    /\ cfg_new = JNone
    /\ cfg_step = "init"

ConfigNext ==
    \/ \E data \in Defaults : ConfigOpen(data)
    \/ \E value \in Values : ConfigAssign(value)
    \/ ConfigSaved
    \/ ConfigSaveCrash
    \/ ConfigExit

SpecConfig == InitConfig /\ [][ConfigNext]_vars

\* a Config(...) call was made in this step
Opening == cfg_data = Closed /\ cfg_step' \in {"open", "open_raised"}
\* the file holds a value that json.load returns
Parsed(file) == file.t \in {"obj", "arr", "num", "bool", "str"}

\* C16: Config(name, data) with an object default over a file that holds an
\* object gives the keys of the file with the file's values plus the keys of
\* the default that the file lacks with the default's values, and nothing
\* else; when it returns the file holds that merged object.
C16_OpenMergesDefault ==
    [][(Opening /\ cfg_file.t = "obj" /\ cfg_default'.t = "obj")
         => /\ cfg_step' = "open"
            /\ cfg_data'.t = "obj"
            /\ DOMAIN cfg_data'.v = DOMAIN cfg_file.v \cup DOMAIN cfg_default'.v
            /\ \A k \in DOMAIN cfg_data'.v :
                  cfg_data'.v[k] = IF k \in DOMAIN cfg_file.v THEN cfg_file.v[k]
                                   ELSE cfg_default'.v[k]
            /\ cfg_file' = cfg_data']_vars

\* default {a:1, b:2} over the file {a:5} gave {a:5, b:2}, data and file
C16_Witness ==
    /\ cfg_step = "open"
    /\ cfg_loaded = JObj([a |-> 5])
    /\ cfg_default = JObj([a |-> 1, b |-> 2])
    /\ cfg_data = JObj([a |-> 5, b |-> 2])
    /\ cfg_file = JObj([a |-> 5, b |-> 2])

\* the document d keeps what the parsed file held: its keys and their values
\* when the file holds an object, the file's value itself otherwise
KeepsLoaded(file, d) ==
    IF file.t = "obj"
    THEN /\ d.t = "obj"
         /\ \A k \in DOMAIN file.v : k \in DOMAIN d.v /\ d.v[k] = file.v[k]
    ELSE d = file

\* C17: whenever the file exists and parses, Config(...) does not raise, the
\* parsed content is the base of the document whatever the value and whatever
\* the default, and the file is not overwritten with a value that drops it
\* (violated: a parsed value that is falsy is replaced by the default, and a
\* non-empty object opened with no dict default raises).
C17_LoadedIsBase ==
    [][(Opening /\ Parsed(cfg_file))
         => /\ cfg_step' = "open"
            /\ KeepsLoaded(cfg_file, cfg_data')
            /\ KeepsLoaded(cfg_file, cfg_file')]_vars

\* C18: when the process ends during save(), the next Config(...) yields what
\* it would have yielded on the whole file of before the save or on the whole
\* file of the new data (violated: the file is left cut short, load returns
\* None for it, and the open takes the default without a word).
C18_CrashLeavesOldOrNew ==
    [][(Opening /\ cfg_step' = "open" /\ cfg_step = "crash" /\ Parsed(cfg_old))
         => \/ cfg_data' = ConfigInit(cfg_old, cfg_default').data
            \/ cfg_data' = ConfigInit(ConfigSave(cfg_new), cfg_default').data]_vars


(***************************************************************************)
(* bot.py: tokenization of every text.                                     *)
(***************************************************************************)
InitTokenize ==
    /\ BotInit /\ bot_owner = JNone
    /\ BuiltinInit /\ owner_cfg = JNone
    /\ ConfigIdle
    /\ TokIdle
    /\ HookIdle /\ FindIdle /\ SessionIdle

TokenizeNext == \E content \in Contents : BotReceive(content)

SpecTokenize == InitTokenize /\ [][TokenizeNext]_vars

\* C15: for every non-empty text, blank-only and unbalanced quotes included,
\* tokenization does not raise and gives at least one token, the tokens are
\* the whitespace split when the quoted split failed, and the handler raises
\* no error on a text without tokens (violated: a text of blanks gives no
\* token and args[0] raises IndexError).
C15_TokenizeNeverFails ==
    (tok_outcome # "init" /\ tok_content # <<>>)
        => /\ Len(tok_args) >= 1
           /\ tok_outcome # "IndexError"
           /\ tok_fallback => tok_args = Split(tok_content)

\* the part of C15 that bot.py keeps: a text with an open quote is split on
\* its blanks and dispatched
C15_UnbalancedQuotesFallBack ==
    (tok_outcome # "init" /\ ShlexSplit(tok_content).raised)
        => /\ tok_fallback
           /\ tok_args = Split(tok_content)
           /\ tok_outcome = "dispatched"


(***************************************************************************)
(* The owner gate on the commands.                                         *)
(***************************************************************************)
\* C12: lambda source is owner-only: for an invoker that is not the owner,
\* source(t) sends nothing to the channel, whatever is stored under t
\* (violated by builtin.source, which has no owner gate and says the body).
C12_SourceOwnerOnly ==
    [][(call'.op = "source" /\ JStr(call'.author) # owner_cfg)
         => reply' = NoReply]_vars

\* bot.py does what C12 says: "!lambda source" of a user who is not the
\* owner sends nothing
C12_BotSourceOwnerOnly ==
    [][(/\ bot_step' = "on_message"
        /\ Len(bot_message'.args) >= 2
        /\ bot_message'.args[1] = "!lambda"
        /\ bot_message'.args[2] = "source"
        /\ ~is_owner(bot_message'.author, bot_owner))
         => bot_sent' = <<>>]_vars


(***************************************************************************)
(* bot.py: the owner commands, the plugins and the code the bot runs.      *)
(***************************************************************************)
BotCommandNext ==
    \/ \E message \in BotCommandMessages : BotOnMessage(message)
    \/ \E unit \in Units : BotInstall(unit)
    \/ BotRestart

SpecBotCommands == InitBotLambda /\ [][BotCommandNext]_vars

\* the first token of the owner-only commands
OwnerOnly == {"!stop", "!game", "!do", "!eval", "!lambda", "!plugin"}

Loading ==
    /\ bot_step' = "on_message"
    /\ is_owner(bot_message'.author, bot_owner)
    /\ Len(bot_message'.args) = 3
    /\ bot_message'.args[1] = "!plugin"
    /\ bot_message'.args[2] = "load"
\* the name it loads
LoadName == Lower(bot_message'.args[3])

C20_LoadFailureIsFalse ==
    [][(/\ Loading
        /\ LoadName \notin DOMAIN plugins
        /\ LoadName \in bot_dir
        /\ ImportModule(LoadName) # "module")
         => /\ bot_raised' = ""
            /\ bot_loaded' = "False"
            /\ LoadName \notin DOMAIN plugins'
            /\ bot_alive']_vars

\* a script of the owner or a stored, enabled lambda that fails is run by the
\* handler of this step
RunsFailingCode ==
    /\ bot_step' = "on_message"
    /\ LET args == bot_message'.args IN
       \/ /\ is_owner(bot_message'.author, bot_owner)
          /\ args[1] \in {"!do", "!eval"}
          /\ Len(args) > 1
          /\ Outcome(SubSeq(args, 2, Len(args))) # "ok"
       \/ /\ args[1] \in DOMAIN bot_lambdas.v
          /\ ~InList(bot_lambda_blacklist, args[1])
          /\ Outcome(bot_lambdas.v[args[1]]) # "ok"

\* C14: a syntax or runtime failure of a lambda body or of the owner's do or
\* eval script is recovered in the handler: no exception leaves it and the
\* bot goes on (violated by bot.py: eval(script) and the exec of a lambda
\* body stand outside any try).
C14_CodeFailureRecovered ==
    [][RunsFailingCode => (bot_raised' = "" /\ bot_alive')]_vars

\* the part of C14 that bot.py keeps: a failing "!do" script is caught and
\* its error is sent
C14_BotDoRecovered ==
    [][(RunsFailingCode /\ bot_message'.args[1] = "!do")
         => /\ bot_raised' = ""
            /\ bot_sent' = <<[channel |-> bot_message'.channel,
                              m |-> ErrorM(Outcome(SubSeq(bot_message'.args, 2,
                                                          Len(bot_message'.args))))]>>]_vars


(***************************************************************************)
(* builtin.py: lambdas that fail.                                          *)
(***************************************************************************)
\* the bodies of the lambdas: one that runs, one that does not compile, one
\* that raises, one that fails an assert
PythonCodes == {"pass", "(", "1/0", "assert"}

LambdaRunNext ==
    \/ \E message \in Messages, python_code \in PythonCodes :
          add(message, "t1", python_code)
    \/ \E message \in Messages : remove(message, "t1")
    \/ \E message \in Messages : enable(message, "t1")
    \/ \E message \in Messages : disable(message, "t1")
    \/ \E message \in Messages : on_message(message)
    \/ Restart

SpecLambdaRun == InitLambda /\ [][LambdaRunNext]_vars

\* on_message runs, in this step, a stored and enabled lambda that fails
LambdaFails ==
    /\ call'.op = "on_message"
    /\ IsLambda(call'.trigger)
    /\ OutcomeOf(lambdas.v[call'.trigger]) # "ok"

\* C13: when a stored, enabled lambda fails, at compile or while it runs, the
\* error is said in the channel only to the owner; for any other invoker it
\* is written to the log and on_message says nothing; and a body that does
\* not compile is not run (violated: an AssertionError of the body is not
\* logged but raised again to the caller, whoever the invoker is).
C13_LambdaErrorToOwnerOnly ==
    [][LambdaFails =>
         /\ ~utils_is_owner(call'.author)
               => /\ reply'.kind # "say"
                  /\ OutcomeOf(lambdas.v[call'.trigger]) \in log'
         /\ OutcomeOf(lambdas.v[call'.trigger]) = "SyntaxError" => session' = NoExec]_vars

\* the part of C13 that builtin.py keeps: a body that does not compile or
\* that raises anything but an AssertionError is said to the owner and for
\* the others logged, and a body that does not compile is not run
C13_BuiltinOtherErrors ==
    [][(LambdaFails /\ OutcomeOf(lambdas.v[call'.trigger]) # "AssertionError")
         => /\ IF utils_is_owner(call'.author)
               THEN reply' = Say(ErrorM(OutcomeOf(lambdas.v[call'.trigger])))
               ELSE /\ reply' = NoReply
                    /\ OutcomeOf(lambdas.v[call'.trigger]) \in log'
            /\ OutcomeOf(lambdas.v[call'.trigger]) = "SyntaxError"
                  => session' = NoExec]_vars

\* builtin.py and C14: no exception leaves on_message when a lambda fails
\* (violated: an AssertionError of the body is raised again)
C14_BuiltinCodeFailureRecovered ==
    [][LambdaFails => reply'.kind # "assert"]_vars

(***************************************************************************)
(* Lambda triggers and their casing.                                       *)
(***************************************************************************)
\* the stored trigger t is outside the blacklist under every casing
EnabledAnyCase(t, B) == \A c \in RawNames : Lower(c) = Lower(t) => ~InList(B, c)

\* C29: lambda triggers are unique up to case: no two stored triggers differ
\* by case only, and a message whose first token equals a stored, enabled
\* trigger up to case runs that trigger's body (violated: builtin.py stores
\* and looks up the trigger as it was typed).
C29_TriggersCaseInsensitive ==
    [][/\ \A a, b \in DOMAIN lambdas'.v : Lower(a) = Lower(b) => a = b
       /\ (/\ call'.op = "on_message"
           /\ \E t \in DOMAIN lambdas.v : /\ Lower(t) = Lower(call'.trigger)
                                          /\ EnabledAnyCase(t, Blacklist))
            => session' # NoExec]_vars

\* bot.py, C29: "!lambda add" stores the lowered name, so no two stored
\* triggers differ by case only; the dispatch compares the first token as it
\* was typed (violated: "T1" does not run the stored t1).
C29_BotTriggersCaseInsensitive ==
    [][/\ \A a, b \in DOMAIN bot_lambdas'.v : Lower(a) = Lower(b) => a = b
       /\ (/\ bot_step' = "on_message"
           /\ bot_message'.author # BotUser
           /\ \E t \in DOMAIN bot_lambdas'.v :
                 /\ Lower(t) = Lower(bot_message'.args[1])
                 /\ EnabledAnyCase(t, bot_lambda_blacklist'))
            => bot_exec' # NoExec]_vars

(***************************************************************************)
(* bot.py: builtin commands and lambdas of the same name.                  *)
(***************************************************************************)
\* the names given to lambdas: two builtin commands and a free name
DispatchNames == {"!help", "!game", "t1"}
BotDispatchMessages ==
    [author : Users, channel : {PublicChannel},
     args : {<<"!help">>, <<"!help", "define">>, <<"!game", "g1">>, <<"t1">>,
             <<"!plugin", "load", "bare">>, <<"!plugin", "unload", "bare">>}
            \cup {<<"!lambda", "add", n, "pass">> : n \in DispatchNames}
            \cup {<<"!lambda", x, "!help">> : x \in {"remove", "disable", "enable"}}]

BotDispatchNext ==
    \/ \E message \in BotDispatchMessages : BotOnMessage(message)
    \/ BotInstall("bare")
    \/ BotRestart

SpecBotDispatch == InitBotLambda /\ [][BotDispatchNext]_vars

\* the first token of the message handled in this step is a builtin command
\* that the author may use, one that itself runs no code
MatchedBuiltin ==
    /\ bot_step' = "on_message"
    /\ bot_message'.author # BotUser
    /\ \/ bot_message'.args[1] = "!help"
       \/ /\ is_owner(bot_message'.author, bot_owner)
          /\ bot_message'.args[1] \in {"!stop", "!game", "!lambda", "!plugin", "!count"}

\* C28: a message whose first token is a builtin command runs no stored
\* lambda body, also when a lambda of that name is stored and enabled
\* (violated: the dispatch at the end of on_message looks the first token up
\* in the lambdas whatever the commands above it did).
C28_BuiltinShadowsLambda ==
    [][MatchedBuiltin => bot_exec' = NoExec]_vars

\* bot.py, C28: a message that is no builtin command and whose first token is
\* a stored, enabled trigger runs that trigger's body
C28_BotOnlyLambdaRuns ==
    [][(/\ bot_step' = "on_message"
        /\ bot_message'.author # BotUser
        /\ bot_message'.args = <<"t1">>
        /\ "t1" \in DOMAIN bot_lambdas.v
        /\ ~InList(bot_lambda_blacklist, "t1"))
         => bot_exec' = [trigger |-> "t1", body |-> bot_lambdas.v["t1"]]]_vars

(***************************************************************************)
(* bot.py: Bot.on_message and autosave, followed through the hooks of the  *)
(* plugins. A hook (save, on_message of a plugin) is a coroutine: the task *)
(* that calls it with yield from is suspended in it once the hook did its  *)
(* work, and other tasks run before it returns. A step is what a task does *)
(* from where it was resumed to where it is suspended next, or to its end. *)
(***************************************************************************)
\* what a step of task i leaves when it does nothing
Same(i) ==
    [task |-> tasks[i], plugins |-> plugins, mem |-> plug_mem, disk |-> plug_disk,
     lambdas |-> bot_lambdas, blacklist |-> bot_lambda_blacklist,
     files |-> bot_files, count |-> bot_message_count, game |-> bot_game,
     loaded |-> "", sent |-> <<>>, exec |-> NoExec, raised |-> "", alive |-> TRUE,
     ops |-> {}, offered |-> {}]

\* the step of task i for message: `at` is where it began ("arrive": the
\* message arrived, "resume": a hook returned, "wake": the sleep of autosave
\* ended), r is what it left
TaskStep(i, at, message, r) ==
    /\ tasks' = [tasks EXCEPT ![i] = r.task]
    /\ plugins' = r.plugins
    /\ plug_mem' = r.mem
    /\ plug_disk' = r.disk
    /\ bot_lambdas' = r.lambdas
    /\ bot_lambda_blacklist' = r.blacklist
    /\ bot_files' = r.files
    /\ bot_message_count' = r.count
    /\ bot_game' = r.game
    /\ bot_loaded' = r.loaded
    /\ bot_sent' = r.sent
    /\ bot_exec' = r.exec
    /\ bot_raised' = r.raised
    /\ bot_alive' = r.alive
    /\ hook_event' = [ops |-> r.ops, task |-> i, at |-> at,
                      offered |-> r.offered]
    /\ bot_step' = "task"
    /\ bot_message' = message
    /\ UNCHANGED <<bot_owner, bot_flows, bot_console, bot_dir>>
    /\ UNCHANGED outsideHooks

\* an exception leaves the coroutine of task i: the handler of the message is
\* over; the autosave task is over for good
Raise(i, r, exc) ==
    [r EXCEPT !.task = IF i = Autosave THEN [NoTask EXCEPT !.pc = "dead"] ELSE NoTask,
              !.raised = exc,
              !.offered = r.task.visited]
\* the coroutine returns
Ended(r) == [r EXCEPT !.task = NoTask, !.offered = r.task.visited]

\* every unit is visited, loaded or not
Iterate_AnyUnit(t, P) == [raised |-> FALSE, names |-> HookUnits \ t.visited]
\* the next item of "for name, plugin in plugins.items()", of the loop that
\* task t is in, over the plugins P as they are now: RuntimeError when the
\* dict changed size since the loop began, else one of its items that were
\* not visited yet; no names: the loop is over
Iterate(t, P) ==
    IF Cardinality(DOMAIN P) # t.size
    THEN [raised |-> TRUE, names |-> {}]
    ELSE [raised |-> FALSE, names |-> DOMAIN P \ t.visited]

\* args[0][1:] of the first tokens that name a command of a plugin
Rest(token) == IF token = "!define" THEN "define" ELSE ""
\* the plugin takes the message: its command, or always_run
Interested(plugin, args) == Rest(args[1]) \in Commands(plugin) \/ always_run(plugin)
\* what on_message of the plugin does to the state of its module: web keeps
\* the word it was asked to define
HookEffect(plugin, args, mem) ==
    IF plugin = "web" /\ args[1] = "!define" /\ Len(args) > 1 /\ args[2] \in Words
    THEN [mem EXCEPT ![plugin] = args[2]]
    ELSE mem

RECURSIVE RunHooks(_, _)
\* the loop over the hooks (for name, plugin in plugins.items()) from its next
\* item on, and the lambda dispatch after it
RunHooks(i, r) ==
    LET args == r.task.message.args
        it == Iterate(r.task, r.plugins)
    IN
    IF it.raised
    THEN {Raise(i, [r EXCEPT !.ops = @ \cup {<<"iterate_failed", "">>}], "RuntimeError")}
    ELSE IF it.names = {}
    THEN LET x == LambdaDispatch(args, r.lambdas.v, r.blacklist)
             e == IF x = NoExec THEN "ok" ELSE Outcome(x.body)
         IN  {Ended([r EXCEPT !.exec = IF e = "SyntaxError" THEN NoExec ELSE x,
                              !.raised = IF e # "ok" THEN e ELSE "",
                              !.ops = @ \cup {<<"dispatch", "">>}])}
    ELSE UNION {
        IF ~HasCommands(n)
        THEN {Raise(i, [r EXCEPT !.ops = @ \cup {<<"no_commands", n>>}], "AttributeError")}
        ELSE IF Interested(n, args)
        THEN {[r EXCEPT !.mem = HookEffect(n, args, r.mem),
                        !.task = [@ EXCEPT !.pc = "hooking", !.name = n,
                                           !.visited = @ \cup {n}],
                        !.ops = @ \cup {<<"hook", n>>}],
              Raise(i, [r EXCEPT !.ops = @ \cup {<<"hook_failed", n>>}], "Exception")}
        ELSE RunHooks(i, [r EXCEPT !.task = [@ EXCEPT !.visited = @ \cup {n}]])
        : n \in it.names}

\* the handler reaches "Run plugins on_message"
BeginHooks(i, r) ==
    RunHooks(i, [r EXCEPT !.task = [@ EXCEPT !.pc = "hooks", !.visited = {},
                                             !.size = Cardinality(DOMAIN r.plugins),
                                             !.name = "", !.then = "", !.after = ""]])

\* what importlib.reload does on the unit as it is in plugins/ now: the module
\* is executed again, it does not compile, or its top-level code raises
ReloadOutcomes == {"ok", "SyntaxError", "Exception"}
\* reload_plugin(plugin_name) with that outcome: the module executed again
\* holds the state that was saved
Reload(r, plugin_name, outcome) ==
    IF plugin_name \notin DOMAIN r.plugins THEN r
    ELSE IF outcome = "ok"
    THEN [r EXCEPT !.plugins = reload_plugin(plugin_name, r.plugins),
                   !.mem = [@ EXCEPT ![plugin_name] = r.disk[plugin_name]]]
    ELSE IF outcome = "SyntaxError"
    THEN [r EXCEPT !.raised = outcome]
    ELSE [r EXCEPT !.mem = [@ EXCEPT ![plugin_name] = Half], !.raised = outcome]
\* reload_plugin of every name in S, each executed again
ReloadMany(r, S) ==
    [r EXCEPT !.mem = [n \in HookUnits |-> IF n \in S THEN r.disk[n] ELSE r.mem[n]],
              !.ops = @ \cup {<<"reload", n>> : n \in S}]

\* save_plugins is over: what the task does next
AfterSweep(i, r) ==
    LET channel == r.task.message.channel IN
    IF r.task.after = "sleep"
    THEN {[r EXCEPT !.task = [NoTask EXCEPT !.pc = "sleep", !.after = "sleep"],
                    !.ops = @ \cup {<<"saved_all", "">>}]}
    ELSE IF r.task.after = "stop"
    THEN {Ended([r EXCEPT !.alive = FALSE, !.raised = "SystemExit",
                          !.ops = @ \cup {<<"stop", "">>}])}
    ELSE BeginHooks(i, [ReloadMany(r, DOMAIN r.plugins) EXCEPT
                          !.sent = @ \o InChannel(channel, <<AllReloaded>>),
                          !.ops = @ \cup {<<"reload_all", "">>}])
         \cup UNION {
            {Raise(i, [Reload(ReloadMany(r, S), n, o) EXCEPT
                         !.ops = @ \cup {<<"reload_failed", n>>}], o)
               : S \in SUBSET (DOMAIN r.plugins \ {n})}
            : n \in DOMAIN r.plugins, o \in ReloadOutcomes \ {"ok"}}

\* what the save hook does when it is called: it writes the state, or fails
SaveOutcomes == {"ok", "OSError"}

RECURSIVE RunSweep(_, _)
\* save_plugin(name) returned to the task: what follows it
AfterSave(i, r, name, then) ==
    LET channel == r.task.message.channel IN
    IF then = "sweep" THEN RunSweep(i, [r EXCEPT !.task = [@ EXCEPT !.pc = "sweep"]])
    ELSE IF then = "reload"
    THEN UNION {
            LET x == Reload(r, name, o) IN
            IF x.raised # ""
            THEN {Raise(i, [x EXCEPT !.ops = @ \cup {<<"reload_failed", name>>}], x.raised)}
            ELSE BeginHooks(i, [x EXCEPT
                                  !.sent = @ \o InChannel(channel,
                                                          <<PluginM(name, "reloaded.")>>),
                                  !.ops = @ \cup {<<"reload", name>>}])
            : o \in ReloadOutcomes}
    ELSE BeginHooks(i, [r EXCEPT
                          !.plugins = unload_plugin(Lower(name), r.plugins),
                          !.sent = @ \o InChannel(channel, <<PluginM(name, "unloaded.")>>),
                          !.ops = @ \cup {<<"unload", Lower(name)>>}])

\* save_plugin(name), up to the suspension in the hook: nothing is called for
\* a name that is not loaded or a module without save (AttributeError, caught)
EnterSave(i, r, name, then) ==
    IF name \notin DOMAIN r.plugins \/ ~HasSave(name)
    THEN AfterSave(i, [r EXCEPT !.ops = @ \cup {<<"no_save", name>>}], name, then)
    ELSE {[r EXCEPT !.disk = [@ EXCEPT ![name] = r.mem[name]],
                    !.task = [@ EXCEPT !.pc = "saving", !.name = name, !.then = then],
                    !.ops = @ \cup {<<"save", name>>}],
          Raise(i, [r EXCEPT !.ops = @ \cup {<<"save_failed", name>>}], "OSError")}

\* save_plugins (for name, _ in plugins.items()) from its next item on
RunSweep(i, r) ==
    LET it == Iterate(r.task, r.plugins) IN
    IF it.raised
    THEN {Raise(i, [r EXCEPT !.ops = @ \cup {<<"iterate_failed", "">>}], "RuntimeError")}
    ELSE IF it.names = {} THEN AfterSweep(i, r)
    ELSE UNION {EnterSave(i, [r EXCEPT !.task = [@ EXCEPT !.visited = @ \cup {n}]],
                          n, "sweep")
                  : n \in it.names}

\* the task calls save_plugins; after is what it does when that returned
BeginSweep(i, r, after) ==
    RunSweep(i, [r EXCEPT !.task = [@ EXCEPT !.pc = "sweep", !.visited = {},
                                             !.size = Cardinality(DOMAIN r.plugins),
                                             !.after = after]])

\* Bot.on_message from its start to its first suspension in a hook, or to
\* its end
Arrive(i, message) ==
    LET args == message.args
        channel == message.channel
        r0 == [Same(i) EXCEPT !.task = [NoTask EXCEPT !.message = message],
                              !.ops = @ \cup {<<"arrive", "">>}]
    IN
    IF message.author = BotUser THEN {Ended([r0 EXCEPT !.ops = @ \cup {<<"ignored", "">>}])}
    ELSE UNION {
        IF h.raised # ""
        THEN {Raise(i, [r0 EXCEPT !.ops = @ \cup {<<"help_failed", "">>}], h.raised)}
        ELSE
        LET r1 == [r0 EXCEPT !.sent = InChannel(channel, h.sent)] IN
        IF is_private(channel) /\ args = <<"!setowner">>
        THEN {Ended([r1 EXCEPT !.sent = @ \o InChannel(channel, <<AlreadySet>>),
                               !.ops = @ \cup {<<"returned", "">>}])}
        ELSE IF ~is_owner(message.author, bot_owner) THEN BeginHooks(i, r1)
        ELSE IF args = <<"!stop">> THEN BeginSweep(i, r1, "stop")
        ELSE IF Len(args) > 1 /\ args[1] = "!plugin" /\ args[2] = "reload"
        THEN IF Len(args) > 2
             THEN IF args[3] \in DOMAIN plugins
                  THEN EnterSave(i, r1, args[3], "reload")
                  ELSE BeginHooks(i, [r1 EXCEPT
                                        !.sent = @ \o InChannel(channel,
                                                                <<NotAPlugin(args[3])>>)])
             ELSE BeginSweep(i, r1, "reload_all")
        ELSE IF Len(args) > 2 /\ args[1] = "!plugin" /\ args[2] = "unload"
        THEN IF Lower(args[3]) \in DOMAIN plugins
             THEN EnterSave(i, r1, args[3], "unload")
             ELSE {Raise(i, [r1 EXCEPT
                               !.ops = @ \cup {<<"unload_failed", Lower(args[3])>>}],
                         "KeyError")}
        ELSE
        LET c == OwnerCommand(message)
            r2 == [r1 EXCEPT
                     !.lambdas = JObj(c.lam.data),
                     !.blacklist = c.lam.blacklist,
                     !.files = [@ EXCEPT
                                  !["lambdas"] = IF c.lam.save
                                                 THEN ConfigSave(JObj(c.lam.data)) ELSE @,
                                  !["count"] = IF c.count_save
                                               THEN ConfigSave(c.count) ELSE @],
                     !.sent = @ \o InChannel(channel, c.sent),
                     !.exec = c.exec,
                     !.plugins = c.plugins,
                     !.count = c.count,
                     !.game = c.game,
                     !.loaded = c.loaded,
                     !.ops = @ \cup {<<"command", "">>}]
        IN  IF c.raised # ""
            THEN {Raise(i, [r2 EXCEPT !.ops = @ \cup {<<"command_failed", "">>}], c.raised)}
            ELSE BeginHooks(i, r2)
        : h \in Help(args, plugins)}

\* the lowest on_message coroutine that is not running
FreeTask == CHOOSE i \in TaskIds \ {Autosave} :
                /\ tasks[i].pc = "idle"
                /\ \A k \in 1..(i - 1) : tasks[k].pc # "idle"

\* a message arrives: Bot.on_message
HookArrive(message) ==
    /\ bot_alive
    /\ \E i \in TaskIds \ {Autosave} : tasks[i].pc = "idle"
    /\ ~(/\ is_private(message.channel)
         /\ message.args = <<"!setowner">>
         /\ ~Truthy(bot_owner))
    /\ message.args = <<"!count">> => CountOf(message.channel) < MaxCount
    /\ \E r \in Arrive(FreeTask, message) : TaskStep(FreeTask, "arrive", message, r)

\* the save hook that task i is suspended in returns
SaveReturn(i) ==
    /\ bot_alive
    /\ tasks[i].pc = "saving"
    /\ \E r \in AfterSave(i, Same(i), tasks[i].name, tasks[i].then) :
          TaskStep(i, "resume", tasks[i].message, r)

\* the on_message of a plugin that task i is suspended in returns
HookReturn(i) ==
    /\ bot_alive
    /\ tasks[i].pc = "hooking"
    /\ \E r \in RunHooks(i, [Same(i) EXCEPT !.task = [@ EXCEPT !.pc = "hooks"]]) :
          TaskStep(i, "resume", tasks[i].message, r)

\* autosave: asyncio.sleep(60 * 30) is over, save_plugins is called
AutosaveWake ==
    /\ bot_alive
    /\ tasks[Autosave].pc = "sleep"
    /\ \E r \in BeginSweep(Autosave, Same(Autosave), "sleep") :
          TaskStep(Autosave, "wake", NoMessage, r)

\* Bot.__init__ with the owner u1 stored and the units dir in plugins/
InitHooksDir(dir) ==
    /\ BotInitDir(dir)
    /\ bot_owner = JStr("u1")
    /\ BuiltinInit
    /\ owner_cfg = JNone
    /\ ConfigIdle
    /\ TokIdle
    /\ HookIdle /\ FindIdle /\ SessionIdle

\* the commands of the owner u1 on the plugins, and a command of web from u2
HookMessages ==
    {[author |-> "u1", channel |-> PublicChannel, args |-> a] :
        a \in {<<"!plugin", "reload">>, <<"!plugin", "reload", "web">>,
               <<"!plugin", "reload", "nope">>, <<"!plugin", "unload", "web">>,
               <<"!plugin", "unload", "Web">>, <<"!plugin", "unload", "nope">>,
               <<"!plugin", "load", "web">>}}
    \cup {[author |-> "u2", channel |-> PublicChannel, args |-> <<"!define", "w1">>]}

InitHooks == InitHooksDir({"web", "log"})

HookNext ==
    \/ \E message \in HookMessages : HookArrive(message)
    \/ \E i \in TaskIds : SaveReturn(i)
    \/ \E i \in TaskIds : HookReturn(i)

\* bot.py: the commands of the owner on plugins, and the hooks of the plugins
SpecHooks == InitHooks /\ [][HookNext]_vars

\* the step is a step of a task in which op was done to the plugin name
Did(op, name) == bot_step' = "task" /\ <<op, name>> \in hook_event'.ops
\* the state is left by a step of a task in which op was done to name
Done(op, name) == bot_step = "task" /\ <<op, name>> \in hook_event.ops
\* the step begins the handler of the owner's "!plugin <sub> <name>"
PluginCommand(sub) ==
    /\ bot_step' = "task"
    /\ hook_event'.at = "arrive"
    /\ is_owner(bot_message'.author, bot_owner)
    /\ Len(bot_message'.args) = 3
    /\ bot_message'.args[1] = "!plugin"
    /\ bot_message'.args[2] = sub

\* C21: the reload of a loaded plugin that has a save hook follows a call of
\* that hook by the same handler, and the state the module held when it was
\* replaced is the state it holds after the reload (violated: the handler is
\* suspended in the save hook, or in the hooks of the plugins saved after it
\* in a reload of all, and what another handler changes in the meantime is
\* not saved again before the module is executed again).
C21_ReloadKeepsState ==
    [][\A n \in HookUnits :
         (Did("reload", n) /\ n \in DOMAIN plugins /\ HasSave(n))
           => /\ tasks[hook_event'.task].pc = "saving"
              /\ n \in {tasks[hook_event'.task].name} \cup tasks[hook_event'.task].visited
              /\ plug_mem'[n] = plug_mem[n]]_vars

\* C21, what holds: the module executed again holds what its save hook wrote
\* last, and that hook was called by the handler before the reload
C21_ReloadGivesSaved ==
    [][\A n \in HookUnits :
         (Did("reload", n) /\ n \in DOMAIN plugins /\ HasSave(n))
           => /\ tasks[hook_event'.task].pc = "saving"
              /\ n \in {tasks[hook_event'.task].name} \cup tasks[hook_event'.task].visited
              /\ plug_mem'[n] = plug_disk[n]]_vars

\* C22: when the reload of a loaded plugin fails, the plugins map the name to
\* the module as it was before, the failure is reported to the command and no
\* exception leaves the handler; the reload of a name that is not loaded
\* changes nothing (violated: reload_plugin has no try, what importlib.reload
\* raises leaves the handler, and a module whose code raised half-way stays
\* registered as it was left).
C22_ReloadFailureKeepsHandle ==
    [][/\ \A n \in HookUnits :
            Did("reload_failed", n)
              => /\ plugins' = plugins
                 /\ plug_mem'[n] = plug_mem[n]
                 /\ bot_raised' = ""
                 /\ bot_sent' # <<>>
       /\ (PluginCommand("reload") /\ bot_message'.args[3] \notin DOMAIN plugins)
            => /\ plugins' = plugins
               /\ plug_mem' = plug_mem
               /\ plug_disk' = plug_disk]_vars

\* C22, what holds: the name stays registered to the same module object, and
\* the reload of a name that is not loaded changes nothing
C22_ReloadFailureKeepsName ==
    [][/\ \A n \in HookUnits : Did("reload_failed", n) => plugins' = plugins
       /\ (PluginCommand("reload") /\ bot_message'.args[3] \notin DOMAIN plugins)
            => /\ plugins' = plugins
               /\ plug_mem' = plug_mem
               /\ plug_disk' = plug_disk]_vars

\* C23: the on_message of a plugin is called only on a module that the
\* plugins hold when it is called: after an unload no hook of the removed
\* plugin is called, also by a loop over the hooks that was suspended in
\* another plugin's hook while the plugin was unloaded or reloaded.
C23_HooksOnRegistered ==
    [][\A n \in HookUnits :
         Did("hook", n) => /\ n \in DOMAIN plugins'
                           /\ plugins'[n] = n]_vars

\* a loop over the hooks was suspended in the hook of web, which took the
\* word w1; web was reloaded meanwhile and holds the saved state again; the
\* loop went on to the hook of log
C23_Witness ==
    /\ Done("hook", "log")
    /\ hook_event.at = "resume"
    /\ bot_message.args = <<"!define", "w1">>
    /\ plug_mem["web"] = ""
    /\ "web" \in DOMAIN plugins

\* a loop over the hooks that was suspended while web was unloaded ends with
\* RuntimeError when it is resumed
C23_UnloadEndsLoop ==
    /\ Done("iterate_failed", "")
    /\ hook_event.at = "resume"
    /\ bot_message.args = <<"!define", "w1">>
    /\ "web" \notin DOMAIN plugins

\* C24: unload of a loaded plugin calls its save hook and then removes that
\* name and no other; unload of a name that is not loaded raises nothing,
\* leaves the plugins as they are and answers "is not a plugin" (violated:
\* plugins[name] raises KeyError for a name that is not loaded, and the save
\* hook is looked up under the name as typed).
C24_Unload ==
    [][/\ PluginCommand("unload")
          => LET name == Lower(bot_message'.args[3]) IN
             IF name \in DOMAIN plugins
             THEN HasSave(name) => Did("save", name)
             ELSE /\ bot_raised' = ""
                  /\ plugins' = plugins
                  /\ bot_sent' = InChannel(bot_message'.channel,
                                           <<NotAPlugin(bot_message'.args[3])>>)
       /\ \A n \in HookUnits :
            Did("unload", n) => plugins' = unload_plugin(n, plugins)]_vars

\* C24, what holds: unload of a loaded plugin typed in lower case calls its
\* save hook, and when the hook returned exactly that name is removed
C24_UnloadLoaded ==
    [][/\ (PluginCommand("unload") /\ bot_message'.args[3] \in DOMAIN plugins)
          => (HasSave(bot_message'.args[3]) => \/ Did("save", bot_message'.args[3])
                                               \/ Did("save_failed", bot_message'.args[3]))
       /\ \A n \in HookUnits :
            Did("unload", n) => plugins' = unload_plugin(n, plugins)]_vars

(***************************************************************************)
(* bot.py: the loop over the hooks of the plugins, with a plugin that has  *)
(* no command table among them.                                            *)
(***************************************************************************)
BroadcastMessages ==
    {[author |-> "u1", channel |-> PublicChannel, args |-> a] :
        a \in {<<"!lambda", "add", "hi", "pass">>, <<"!plugin", "unload", "bare">>,
               <<"!plugin", "load", "bare">>}}
    \cup {[author |-> "u2", channel |-> PublicChannel, args |-> a] :
            a \in {<<"!define", "w1">>, <<"hi">>, <<"!help">>}}
    \cup {[author |-> "u2", channel |-> "u2", args |-> <<"!setowner">>],
          [author |-> BotUser, channel |-> PublicChannel, args |-> <<"hi">>]}

InitBroadcast == InitHooksDir({"web", "log", "bare"})

BroadcastNext ==
    \/ \E message \in BroadcastMessages : HookArrive(message)
    \/ \E i \in TaskIds : HookReturn(i)

SpecBroadcast == InitBroadcast /\ [][BroadcastNext]_vars

\* what a step can do that ends its coroutine with an exception
FailOps == {"iterate_failed", "no_commands", "hook_failed", "reload_failed",
            "save_failed", "help_failed", "unload_failed", "command_failed"}
\* the step did some op to some plugin
DidSome(op) == bot_step' = "task" /\ \E o \in hook_event'.ops : o[1] = op

\* C26: when the on_message of a plugin fails, the hooks of the remaining
\* interested plugins are still called and the lambda dispatch follows: the
\* handler goes on to the next hook or to the dispatch, and no exception
\* leaves it (violated: the loop has no try, the exception of the hook ends
\* the handler).
C26_HookFailureIsolated ==
    [][DidSome("hook_failed")
         => /\ bot_raised' = ""
            /\ DidSome("hook") \/ DidSome("dispatch")]_vars

\* C26, what holds: when the on_message of a plugin returned, the handler
\* goes on to a next hook, to the lambda dispatch, or ends with an exception
\* of the loop or of a next hook
C26_HookReturnGoesOn ==
    [][(bot_step' = "task" /\ hook_event'.at = "resume"
        /\ tasks[hook_event'.task].pc = "hooking")
         => \/ DidSome("hook")
            \/ DidSome("dispatch")
            \/ \E f \in FailOps : DidSome(f)]_vars

\* the handler of a message of a user ends in this step, and nothing failed
\* in it
HandlerEnds ==
    /\ bot_step' = "task"
    /\ hook_event'.task # Autosave
    /\ tasks'[hook_event'.task].pc = "idle"
    /\ bot_message'.author # BotUser
    /\ bot_alive'
    /\ \A f \in FailOps \ {"no_commands"} : ~DidSome(f)

\* C27: the handler of a message of a user does not end before the message
\* was offered to the on_message of every loaded plugin that takes it (its
\* command, or always_run), whatever the builtin commands did with it and
\* also when a plugin has no command table (violated: "!setowner" with an
\* owner set returns before the hooks, and plugin.commands of a plugin without
\* a command table raises AttributeError).
C27_OfferedToEveryPlugin ==
    [][HandlerEnds
         => \A n \in DOMAIN plugins' :
               Interested(n, bot_message'.args) => n \in hook_event'.offered]_vars

\* C27, what holds: a handler that reached the lambda dispatch offered the
\* message to every interested plugin that was loaded all along
C27_OfferedBeforeDispatch ==
    [][(HandlerEnds /\ DidSome("dispatch"))
         => \A n \in DOMAIN plugins' :
               Interested(n, bot_message'.args) => n \in hook_event'.offered]_vars

(***************************************************************************)
(* bot.py: autosave and save_plugins.                                      *)
(***************************************************************************)
AutosaveMessages ==
    {[author |-> "u1", channel |-> PublicChannel, args |-> <<"!stop">>],
     [author |-> "u2", channel |-> PublicChannel, args |-> <<"!define", "w1">>]}

InitAutosave == InitHooksDir({"web", "log", "bare"})

AutosaveNext ==
    \/ AutosaveWake
    \/ \E i \in TaskIds : SaveReturn(i)
    \/ \E message \in AutosaveMessages : HookArrive(message)
    \/ \E i \in TaskIds : HookReturn(i)

SpecAutosave == InitAutosave /\ [][AutosaveNext]_vars

\* the sleep of autosave ends when its time is over, and a hook that a task
\* is suspended in returns
FairAutosave ==
    /\ SpecAutosave
    /\ WF_vars(AutosaveWake)
    /\ \A i \in TaskIds : WF_vars(SaveReturn(i)) /\ WF_vars(HookReturn(i))

\* the step is a step of save_plugins: of autosave, of "!stop", of
\* "!plugin reload"
InSweep ==
    /\ bot_step' = "task"
    /\ \/ hook_event'.at = "wake"
       \/ hook_event'.at = "resume" /\ tasks[hook_event'.task].then = "sweep"
       \/ hook_event'.at = "arrive"
            /\ bot_message'.args \in {<<"!stop">>, <<"!plugin", "reload">>}
            /\ is_owner(bot_message'.author, bot_owner)

\* C25: save_plugins calls the save hook of every loaded plugin that has one:
\* when the hook of one plugin fails, no exception leaves save_plugins and it
\* goes on to the loaded plugins with a save hook that it did not visit yet
\* (violated: save_plugin catches AttributeError only, any other exception of
\* a hook ends save_plugins and its caller).
C25_SaveFailureIsolated ==
    [][\A n \in HookUnits :
         (InSweep /\ Did("save_failed", n))
           => /\ bot_raised' = ""
              /\ \A m \in DOMAIN plugins :
                    (HasSave(m) /\ m # n /\ m \notin tasks[hook_event'.task].visited
                       /\ ~Did("save", m))
                      => tasks'[hook_event'.task].pc = "saving"]_vars

\* C25, what holds: a plugin without save is passed over, no exception comes
\* of it
C25_NoSaveHookSkipped ==
    [][\A n \in HookUnits :
         (InSweep /\ Did("no_save", n) /\ ~DidSome("save_failed"))
           => bot_raised' \in {"", "SystemExit"}]_vars

\* save_plugins of autosave began in the step that led here
SweepBegan == bot_step = "task" /\ hook_event.at = "wake"

\* C30: autosave goes on for as long as the process runs: again and again its
\* sleep ends and save_plugins is called, also after a save hook failed in
\* an earlier call (violated: autosave has no try, the exception of a save
\* hook ends the task and nothing starts it again).
C30_AutosaveGoesOn == []<>(~bot_alive \/ SweepBegan)

\* C30, what holds: nothing is saved before the first sleep is over, and
\* autosave is one task, which sleeps, saves or is over
C30_NoSaveAtStartup ==
    /\ hook_event = NoEvent => plug_disk = [n \in HookUnits |-> ""]
    /\ tasks[Autosave].pc \in {"sleep", "saving", "dead"}
    /\ \A i \in TaskIds \ {Autosave} : tasks[i].after # "sleep"

\* C30, what holds: as long as the process runs and the autosave task was not
\* ended by an exception, its sleep ends and save_plugins is called again
C30_AutosaveGoesOnUnlessEnded ==
    []<>(~bot_alive \/ SweepBegan \/ tasks[Autosave].pc = "dead")

(***************************************************************************)
(* bot.py: "!stop" of the owner.                                           *)
(***************************************************************************)
\* the state is left by the step in which "!stop" of the owner arrived
StopReceived ==
    /\ bot_step = "task"
    /\ hook_event.at = "arrive"
    /\ bot_message.args = <<"!stop">>
    /\ is_owner(bot_message.author, bot_owner)

\* C31: "!stop" of the owner always leads to the end of the process (it is
\* preceded by one save_plugins begun after the command arrived, and nothing
\* else ends the process; those two parts are C31_SaveBeforeExit and
\* C31_OnlyStopTerminates). Violated: an exception of a save hook, or of the
\* loop over plugins that changed size, leaves save_plugins and the handler
\* before bot.logout() and exit() are reached.
C31_StopTerminates == StopReceived ~> ~bot_alive

\* C31, what holds: the process is ended only by the handler of the owner's
\* "!stop"
C31_OnlyStopTerminates ==
    [][(bot_alive /\ ~bot_alive')
         => /\ Did("stop", "")
            /\ hook_event'.task # Autosave
            /\ bot_message'.args = <<"!stop">>
            /\ is_owner(bot_message'.author, bot_owner)
            /\ bot_raised' = "SystemExit"]_vars

\* C31, what holds: the handler that ends the process called save_plugins
\* after "!stop" arrived, and that sweep went over every plugin loaded at its
\* end: each was saved in this step or in an earlier step of the same sweep
C31_SaveBeforeExit ==
    [][(bot_alive /\ ~bot_alive')
         => LET i == hook_event'.task IN
            /\ \/ hook_event'.at = "arrive"
               \/ /\ hook_event'.at = "resume"
                  /\ tasks[i].pc = "saving"
                  /\ tasks[i].then = "sweep"
                  /\ tasks[i].after = "stop"
            /\ \A n \in DOMAIN plugins :
                  \/ n \in hook_event'.offered
                  \/ Did("save", n) \/ Did("no_save", n)]_vars

\* C31, what holds: a handler of "!stop" that is suspended in a save hook
\* ends the process or is ended by an exception
C31_StopTerminatesUnlessFailed ==
    \A i \in TaskIds \ {Autosave} :
        (tasks[i].after = "stop")
          ~> \/ ~bot_alive
             \/ /\ bot_step = "task"
                /\ hook_event.task = i
                /\ bot_raised \notin {"", "SystemExit"}

(***************************************************************************)
(* bot.py: Bot.find_member and Bot.find_channel.                           *)
(***************************************************************************)
\* the characters of a name; the text of a mention is one item of a text
Letters == {"a", "A", "b"}
MemberMention == "<@1>"
ChannelMention == "<#1>"
\* the longest name and text, and the most members or channels of a server
MaxName == 2
MaxMembers == 2

\* str.lower()
lower(s) == [k \in 1..Len(s) |-> IF s[k] = "A" THEN "a" ELSE s[k]]
\* s.startswith(prefix)
startswith(s, prefix) ==
    Len(prefix) <= Len(s) /\ SubSeq(s, 1, Len(prefix)) = prefix
\* sub in s
contains(sub, s) ==
    \E k \in 0..(Len(s) - Len(sub)) : SubSeq(s, k + 1, k + Len(sub)) = sub

\* checks[i](m): the name is equal, begins with, contains the text
checks(i, m, name) ==
    CASE i = 0 -> lower(m.name) = lower(name)
      [] i = 1 -> startswith(lower(m.name), lower(name))
      [] i = 2 -> contains(lower(name), lower(m.name))

\* the last element that satisfies the check
utils_find_Last(i, seq, name) ==
    LET S == {k \in 1..Len(seq) : checks(i, seq[k], name)} IN
    IF S = {} THEN NotFound ELSE seq[CHOOSE k \in S : \A j \in S : j <= k]
\* discord.utils.find(checks[i], seq): the first element of seq that
\* satisfies the check, None when there is none
utils_find(i, seq, name) ==
    LET S == {k \in 1..Len(seq) : checks(i, seq[k], name)} IN
    IF S = {} THEN NotFound ELSE seq[CHOOSE k \in S : \A j \in S : k <= j]

\* re.search(r"<@([0-9]+)>", name) and its group(1): the id of the first
\* mention in the text, 0 when there is none
re_search(pattern, name) ==
    IF \E k \in 1..Len(name) : name[k] = pattern THEN 1 ELSE 0
\* server.get_member(id), server.get_channel(id)
get(seq, id) ==
    IF \E k \in 1..Len(seq) : seq[k].id = id
    THEN seq[CHOOSE k \in 1..Len(seq) : seq[k].id = id]
    ELSE NotFound

RECURSIVE FindLoop(_, _, _, _)
\* for i in range(n): member = find(checks[i], seq); if member: break
FindLoop(i, n, seq, name) ==
    IF i >= n THEN NotFound
    ELSE LET member == utils_find(i, seq, name) IN
         IF member # NotFound THEN member ELSE FindLoop(i + 1, n, seq, name)

\* the body the two functions share, pattern being the mention they look for
Find(pattern, seq, name, steps, mention) ==
    LET found_mention == re_search(pattern, name)
        member == IF found_mention # 0 /\ mention
                  THEN get(seq, found_mention) ELSE NotFound
    IN  IF member # NotFound THEN member
        ELSE FindLoop(0, IF steps <= 3 THEN steps ELSE 3, seq, name)

find_member(members, name, steps, mention) ==
    Find(MemberMention, members, name, steps, mention)
find_channel(channels, name, steps, mention) ==
    Find(ChannelMention, channels, name, steps, mention)

\* the names, the members (or channels) and the servers of the calls
Names == UNION {[1..n -> Letters] : n \in 1..MaxName}
Members == [id : 1..MaxMembers, name : Names]
Servers ==
    UNION {{s \in [1..n -> Members] :
              \A j, k \in 1..n : s[j].id = s[k].id => j = k}
             : n \in 0..MaxMembers}
Texts == UNION {[1..n -> Letters \cup {MemberMention, ChannelMention}]
                  : n \in 0..MaxName}
Steps == -1..4

\* a call of Bot.find_member
FindMember ==
    /\ find_call = "init"
    /\ find_found' = find_member(find_server, find_name, find_steps, find_mention)
    /\ find_call' = "find_member"
    /\ UNCHANGED <<find_server, find_name, find_steps, find_mention>>
    /\ UNCHANGED <<botVars, builtinVars, configVars, tokVars, hookVars, sessionVars>>

\* a call of Bot.find_channel
FindChannel ==
    /\ find_call = "init"
    /\ find_found' = find_channel(find_server, find_name, find_steps, find_mention)
    /\ find_call' = "find_channel"
    /\ UNCHANGED <<find_server, find_name, find_steps, find_mention>>
    /\ UNCHANGED <<botVars, builtinVars, configVars, tokVars, hookVars, sessionVars>>

\* the arguments of one call
InitFind ==
    /\ BotInit /\ bot_owner = JStr("u1")
    /\ BuiltinInit /\ owner_cfg = JNone
    /\ ConfigIdle /\ TokIdle /\ HookIdle /\ SessionIdle
    /\ find_server \in Servers
    /\ find_name \in Texts
    /\ find_steps \in Steps
    /\ find_mention \in BOOLEAN
    /\ find_found = NotFound
    /\ find_call = "init"

FindNext == FindMember \/ FindChannel

SpecFind == InitFind /\ [][FindNext]_vars

\* the call returned what the mention in the text names
MentionFound ==
    /\ find_mention
    /\ \E k \in 1..Len(find_name) :
          find_name[k] = (IF find_call = "find_member" THEN MemberMention
                          ELSE ChannelMention)
    /\ \E k \in 1..Len(find_server) : find_server[k].id = 1
\* the places in the collection of the elements that satisfy predicate i
Matching(i) == {k \in 1..Len(find_server) : checks(i, find_server[k], find_name)}
\* the predicates that are tried and have a match
Tried ==
    {i \in 0..2 : i < find_steps /\ Matching(i) # {}}

\* C32: when no mention lookup succeeds, find_member and find_channel return
\* the first element, in the order of the collection, that satisfies the
\* strictest of the first min(steps, 3) predicates (equal, prefix, substring,
\* all on lower-cased text) that has a match, and None when none of them has
\* one.
C32_Resolve ==
    (find_call # "init" /\ ~MentionFound)
      => IF Tried = {} THEN find_found = NotFound
         ELSE LET i == CHOOSE x \in Tried : \A y \in Tried : x <= y
                  k == CHOOSE x \in Matching(i) : \A y \in Matching(i) : x <= y
              IN  find_found = find_server[k]

\* find_member returned the first of two members whose names begin with the
\* text, none being equal to it
C32_Witness ==
    /\ find_call = "find_member"
    /\ ~MentionFound
    /\ Matching(0) = {}
    /\ Cardinality(Matching(1)) = 2
    /\ find_steps >= 2
    /\ find_found = find_server[1]

\* with steps = 1 a name that only begins with the text is not returned, and
\* with steps <= 0 nothing is
C32_StepsLimit ==
    (find_call # "init" /\ ~MentionFound)
      => /\ (find_steps <= 0) => find_found = NotFound
         /\ (find_steps = 1 /\ Matching(0) = {}) => find_found = NotFound

(***************************************************************************)
(* builtin.py: the scope code_globals of the lambdas and of the snippets   *)
(* of do and eval, with bodies that await.                                 *)
(***************************************************************************)
\* the bodies: one that runs to its end, one that awaits a coroutine and
\* reads the names of its scope before and after it
SessionCodes == {"pass", "await"}
Awaits(python_code) == python_code = "await"

\* code_globals.update(dict(arg=arg, args=args, message=message, ...)) of
\* on_message: arg is the closure on the args of that call
LambdaScope(message) ==
    [arg |-> message.args, args |-> message.args, message |-> message]
\* code_globals.update(dict(message=message, author=..., channel=...)) of do
\* and eval: arg and args stay as they are
SnippetScope(g, message) == [g EXCEPT !.message = message]

\* the lowest coroutine slot that is free
FreeSession == CHOOSE s \in SessionSlots :
                  /\ sessions[s].pc = "idle"
                  /\ \A k \in 1..(s - 1) : sessions[k].pc # "idle"

\* the body begins in the scope g: it reads its names, and runs to its end
\* or to its await
SessionBegin(op, message, python_code, g) ==
    /\ code_globals' = g
    /\ sessions' = IF Awaits(python_code)
                   THEN [sessions EXCEPT ![FreeSession] =
                           [pc |-> "awaiting", op |-> op, message |-> message]]
                   ELSE sessions
    /\ session_event' = [at |-> "begin", op |-> op, message |-> message, seen |-> g]

\* the on_message event for a lambda whose body is one of SessionCodes
SessionOnMessage(message) ==
    LET args == message.args
        python_code == lambdas.v[args[1]]
    IN
    /\ IsLambda(args[1])
    /\ python_code \in SessionCodes
    /\ Awaits(python_code) => \E s \in SessionSlots : sessions[s].pc = "idle"
    /\ SessionBegin("on_message", message, python_code, LambdaScope(message))
    /\ call' = [op |-> "on_message", author |-> message.author, trigger |-> args[1],
                python_code |-> ""]
    /\ reply' = NoReply
    /\ session' = [trigger |-> args[1], body |-> python_code]
    /\ UNCHANGED <<owner_cfg, lambdas, lambda_config, files, flows, log>>
    /\ UNCHANGED <<botVars, configVars, tokVars, hookVars, findVars>>

\* do and eval of the owner: the code runs in code_globals too
SessionSnippet(op, message, python_code) ==
    IF ~owner(message) THEN Dropped(op, message, "", python_code)
    ELSE
    /\ Awaits(python_code) => \E s \in SessionSlots : sessions[s].pc = "idle"
    /\ SessionBegin(op, message, python_code, SnippetScope(code_globals, message))
    /\ call' = [op |-> op, author |-> message.author, trigger |-> "",
                python_code |-> python_code]
    /\ reply' = NoReply
    /\ session' = NoExec
    /\ UNCHANGED <<owner_cfg, lambdas, lambda_config, files, flows, log>>
    /\ UNCHANGED <<botVars, configVars, tokVars, hookVars, findVars>>

\* what the body in slot s awaited is done: the body goes on, reads the
\* names of its scope again and ends
SessionResume(s) ==
    /\ sessions[s].pc = "awaiting"
    /\ sessions' = [sessions EXCEPT ![s] = NoSession]
    /\ session_event' = [at |-> "resume", op |-> sessions[s].op,
                         message |-> sessions[s].message, seen |-> code_globals]
    /\ call' = [op |-> sessions[s].op, author |-> sessions[s].message.author,
                trigger |-> "", python_code |-> ""]
    /\ reply' = NoReply
    /\ UNCHANGED <<code_globals, session>>
    /\ UNCHANGED <<owner_cfg, lambdas, lambda_config, files, flows, log>>
    /\ UNCHANGED <<botVars, configVars, tokVars, hookVars, findVars>>

\* the messages: a lambda with and without further tokens, from two users
SessionMessages ==
    [author : Users, channel : {PublicChannel},
     args : {<<"t1">>, <<"t1", "x">>}]

InitSession == InitLambda /\ owner_cfg = JStr("u1")

SessionNext ==
    \/ \E message \in SessionMessages, python_code \in SessionCodes :
          add(message, "t1", python_code)
    \/ \E message \in SessionMessages : SessionOnMessage(message)
    \/ \E message \in SessionMessages, op \in {"do", "eval"},
          python_code \in SessionCodes : SessionSnippet(op, message, python_code)
    \/ \E s \in SessionSlots : SessionResume(s)

SpecSession == InitSession /\ [][SessionNext]_vars

\* what the body that ran last read is the scope of the message that
\* triggered it
SeesOwn ==
    /\ session_event.seen.message = session_event.message
    /\ session_event.op = "on_message"
         => /\ session_event.seen.args = session_event.message.args
            /\ session_event.seen.arg = session_event.message.args

\* C33: a lambda body, and a snippet of do or eval, reads the token list, the
\* arg accessor and the message of the message that triggered it for as long
\* as it runs, also after an await during which another message triggered a
\* lambda or a snippet (violated: code_globals is one dict of the module that
\* every call updates, and the names of a body are looked up in it when they
\* are read).
C33_SessionSeesOwnMessage == session_event.at # "" => SeesOwn

\* C33, what holds: up to its first await a body reads the scope of its own
\* message
C33_OwnMessageUntilAwait == session_event.at = "begin" => SeesOwn

\* C33, what holds: a resumed body reads the scope as the handler that
\* updated it last left it
C33_ResumedSeesLast ==
    [][\A s \in SessionSlots :
         (sessions[s].pc = "awaiting" /\ sessions'[s].pc = "idle")
           => session_event'.seen = code_globals]_vars

(***************************************************************************)
(* bot.py: the loops over plugins.items() while plugins are loaded and     *)
(* unloaded.                                                               *)
(***************************************************************************)
\* the owner stops the bot, unloads and loads web; a user calls web
SweepMessages ==
    {[author |-> "u1", channel |-> PublicChannel, args |-> a] :
        a \in {<<"!stop">>, <<"!plugin", "unload", "web">>,
               <<"!plugin", "load", "web">>}}
    \cup {[author |-> "u2", channel |-> PublicChannel, args |-> <<"!define", "w1">>]}

InitSweep == InitHooksDir({"web", "log"})

SweepNext ==
    \/ AutosaveWake
    \/ \E i \in TaskIds : SaveReturn(i)
    \/ \E message \in SweepMessages : HookArrive(message)
    \/ \E i \in TaskIds : HookReturn(i)

\* bot.py: autosave, "!stop" and the hooks, with "!plugin load" and "unload"
SpecSweep == InitSweep /\ [][SweepNext]_vars

\* the step resumes a task that is suspended in a hook of a loop over the
\* plugins
ResumesLoop ==
    /\ bot_step' = "task"
    /\ hook_event'.at = "resume"
    /\ \/ tasks[hook_event'.task].pc = "hooking"
       \/ tasks[hook_event'.task].pc = "saving" /\ tasks[hook_event'.task].then = "sweep"

\* C34: a loop over the plugins that is suspended in a hook (save_plugins of
\* autosave or of "!stop", the hooks of a message) goes on without an error
\* when another handler loaded or unloaded a plugin in the meantime
\* (violated: the loops iterate over plugins.items() of the dict itself, and
\* the next item of a dict that changed size raises RuntimeError).
C34_SweepSurvivesLoadUnload ==
    [][ResumesLoop => ~Did("iterate_failed", "")]_vars

\* C34, what holds: a loop resumed while as many plugins are loaded as when
\* it began goes on without that error
C34_SweepUndisturbed ==
    [][(ResumesLoop
        /\ Cardinality(DOMAIN plugins) = tasks[hook_event'.task].size)
         => ~Did("iterate_failed", "")]_vars

====
